---------------------------- MODULE Spec2Model ----------------------------
(***************************************************************************)
(* ShazBuckBot: the wager ledger and match-settlement engine of            *)
(* src/shazbuckbot.py, as a state machine over its four sqlite tables      *)
(* (users, transfers, games, wagers).                                      *)
(*                                                                         *)
(* Conventions of the model                                                *)
(*  - a user row is named by its discord id (cmd_shazbucks creates at most *)
(*    one row per discord id, so row id and discord id are one-to-one);    *)
(*    the bot's own row (House) is DISCORD_ID;                             *)
(*  - a member's nick is the member's number, caseless_equal is equality;  *)
(*  - balances and transfer amounts are counted in units of                *)
(*    1/MONEY_SCALE shazbuck, because settle-to-Tied multiplies a payout   *)
(*    by TIE_PAYOUT_SCALE = 0.5 and sqlite keeps the fractional value;     *)
(*    wager amounts are whole shazbucks (cmd_bet's amount is an int);      *)
(*  - the transfers table is kept as what its rows add up to: for every    *)
(*    user the sum of the amounts received minus the sum of the amounts    *)
(*    sent (variable transfers); the rows a handler inserts are kept one   *)
(*    by one, as a bag of <<sender, receiver, amount>>, in the field       *)
(*    "inserted" of the database value the handler works on;               *)
(*  - a handler is one action; the pure operators below thread the         *)
(*    database value d = [users, transfers, inserted, games, wagers]       *)
(*    through the statements of the handler, and "raised" marks an         *)
(*    uncaught Python exception, which ends the handler and keeps what     *)
(*    was committed.                                                       *)
(***************************************************************************)
EXTENDS Integers, Sequences, FiniteSets, Bags, TLC

(***************************************************************************)
(* Bounds of the model.                                                    *)
(***************************************************************************)
NumMembers == 3
MaxGames == 1
MaxWagers == 2
MaxAmount == 1
MaxGift == 1
\* Betting pools: the matches open at once and the largest stake of a bet.
PoolGames == 2
MaxStake == 2
\* The cmd_bet coroutines suspended at once.
MaxAwaiting == 2
\* Bet placement under a clock: the minutes that pass and the custom games opened.
MaxTime == 3
PlaceGames == 2

(***************************************************************************)
(* Program constants.                                                      *)
(***************************************************************************)
GameStatus_PICKING == 1
GameStatus_CANCELLED == 2
GameStatus_INPROGRESS == 3
GameStatus_TEAM1 == 4
GameStatus_TEAM2 == 5
GameStatus_TIED == 6

WagerResult_INPROGRESS == 1
WagerResult_WON == 2
WagerResult_LOST == 3
WagerResult_CANCELLED == 4
WagerResult_CANCELLEDNOWINNERS == 5
WagerResult_CANCELLEDONESIDED == 6

\* config['init_bal'], config['bucks_per_pug'], config['bet_window'] (minutes)
INIT_BAL == 2
BUCKS_PER_PUG == 1
BET_WINDOW == 1

\* TIE_PAYOUT_SCALE = 0.5 = 1 / MONEY_SCALE; one shazbuck is MONEY_SCALE units.
MONEY_SCALE == 2

\* The bot's own discord id: the House row of the users table.
DISCORD_ID == 0

Members == 1..NumMembers
Outcomes == {GameStatus_TEAM1, GameStatus_TEAM2, GameStatus_TIED}
\* Outcome labels of custom games live in the same name space as nicks.
Labels == {NumMembers + 1, NumMembers + 2}
Names == Members \cup Labels
PugQueues == {"NA"}
CustomQueue == "custom"

\* awaiting: the frames of the coroutines suspended at an await (a cmd_bet at
\* its captain-nick lookup, a refund or settlement loop at its send_dm).
VARIABLES users, transfers, games, wagers, trueskills, now, awaiting

vars == <<users, transfers, games, wagers, trueskills, now, awaiting>>

\* The database as one value.
DB == [users |-> users, transfers |-> transfers, inserted |-> EmptyBag,
       games |-> games, wagers |-> wagers, trueskills |-> trueskills]

Store(d) ==
    /\ users' = d.users
    /\ transfers' = d.transfers
    /\ games' = d.games
    /\ wagers' = d.wagers
    /\ trueskills' = d.trueskills

Shazbucks(n) == n * MONEY_SCALE

(***************************************************************************)
(* Python's round() of the quotient num/den (round half to even). The      *)
(* code rounds the float amount * (total / winning total); the two agree   *)
(* for every total below 25 shazbucks, which the bounds stay under.        *)
(***************************************************************************)
PyRound(num, den) ==
    LET q == num \div den
        r == num % den
    IN  IF 2 * r < den THEN q
        ELSE IF 2 * r > den THEN q + 1
        ELSE IF q % 2 = 0 THEN q ELSE q + 1

RECURSIVE SeqSum(_)
SeqSum(s) == IF s = <<>> THEN 0 ELSE Head(s) + SeqSum(Tail(s))

\* The ids (row numbers) of a table, in row order, that satisfy a test.
RECURSIVE SelectIds(_, _, _)
SelectIds(table, Test(_), i) ==
    IF i > Len(table) THEN <<>>
    ELSE IF Test(table[i]) THEN <<i>> \o SelectIds(table, Test, i + 1)
    ELSE SelectIds(table, Test, i + 1)

(***************************************************************************)
(* Table primitives (the module-level functions of shazbuckbot.py).        *)
(***************************************************************************)
create_user(d, discord_id, balance) ==
    [d EXCEPT !.users = (discord_id :> balance) @@ d.users,
              !.transfers = (discord_id :> 0) @@ d.transfers]

change_balance(d, user_id, balance_change) ==
    IF user_id \in DOMAIN d.users
    THEN [d EXCEPT !.users[user_id] = @ + balance_change]
    ELSE d

\* INSERT INTO transfers(sender, receiver, amount, ...)
insert_transfer(d, sender, receiver, amount) ==
    LET sent == [d EXCEPT !.transfers[sender] = @ - amount]
    IN  [sent EXCEPT !.transfers[receiver] = @ + amount,
                     !.inserted = @ (+) SetToBag({<<sender, receiver, amount>>})]

\* create_transfer without the sender's debit.
create_transfer_credit_only(d, sender, receiver, amount) ==
    change_balance(insert_transfer(d, sender, receiver, amount), receiver, amount)

create_transfer(d, sender, receiver, amount) ==
    change_balance(change_balance(insert_transfer(d, sender, receiver, amount),
                                  sender, -amount),
                   receiver, amount)

create_game(d, queue, team1, team2, bet_window) ==
    [d EXCEPT !.games = Append(@, [queue |-> queue, start_time |-> now, pick_time |-> -1,
                                   team1 |-> team1, team2 |-> team2,
                                   status |-> GameStatus_PICKING, bet_window |-> bet_window])]

cancel_game(d, game_id) ==
    [d EXCEPT !.games[game_id].status = GameStatus_CANCELLED]

update_teams(d, game_id, team1, team2) ==
    [d EXCEPT !.games[game_id].team1 = team1, !.games[game_id].team2 = team2]

pick_game(d, game_id, team1, team2) ==
    [d EXCEPT !.games[game_id].pick_time = now,
              !.games[game_id].team1 = team1,
              !.games[game_id].team2 = team2,
              !.games[game_id].status = GameStatus_INPROGRESS]

finish_game(d, game_id, result) ==
    [d EXCEPT !.games[game_id].status = result]

\* Variant: create_wager that stores the wager without taking the stake.
create_wager_no_escrow(d, user_id, game_id, prediction, amount) ==
    [d EXCEPT !.wagers = Append(@, [user_id |-> user_id, game_id |-> game_id,
                                    prediction |-> prediction, amount |-> amount,
                                    result |-> WagerResult_INPROGRESS])]

create_wager(d, user_id, game_id, prediction, amount) ==
    LET row == [d EXCEPT !.wagers = Append(@, [user_id |-> user_id, game_id |-> game_id,
                                               prediction |-> prediction, amount |-> amount,
                                               result |-> WagerResult_INPROGRESS])]
    IN  create_transfer(row, user_id, DISCORD_ID, Shazbucks(amount))

\* Variant: change_wager that records no transfer.
change_wager_no_escrow(d, wager_id, amount_change) ==
    [d EXCEPT !.wagers[wager_id].amount = @ + amount_change]

change_wager(d, wager_id, amount_change) ==
    LET row == [d EXCEPT !.wagers[wager_id].amount = @ + amount_change]
    IN  create_transfer(row, d.wagers[wager_id].user_id, DISCORD_ID, Shazbucks(amount_change))

wager_result(d, wager_id, result) ==
    [d EXCEPT !.wagers[wager_id].result = result]

(***************************************************************************)
(* Settlement (resolve_wagers), roster-change refund (cancel_wagers) and   *)
(* participation rewards (pay_players). Sending a direct message changes   *)
(* no table; it is left out of the one-at-a-time handlers.                 *)
(***************************************************************************)
InProgressWagers(d, game_id) ==
    SelectIds(d.wagers,
              LAMBDA w : w.game_id = game_id /\ w.result = WagerResult_INPROGRESS, 1)

\* total_amounts[outcome]: the sum of the amounts of the listed wagers per prediction.
RECURSIVE TotalAmount(_, _, _)
TotalAmount(d, ids, outcome) ==
    IF ids = <<>> THEN 0
    ELSE (IF d.wagers[Head(ids)].prediction = outcome THEN d.wagers[Head(ids)].amount ELSE 0)
         + TotalAmount(d, Tail(ids), outcome)

total_amount(d, ids) ==
    TotalAmount(d, ids, GameStatus_TEAM1) + TotalAmount(d, ids, GameStatus_TEAM2)
    + TotalAmount(d, ids, GameStatus_TIED)

\* GameStatus(prediction).name must be a key of total_amounts: otherwise Python
\* raises ValueError (no such GameStatus) or KeyError (PICKING .. INPROGRESS).
PredictionRaises(d, ids) ==
    \E i \in 1..Len(ids) : d.wagers[ids[i]].prediction \notin Outcomes

\* win_amount * TIE_PAYOUT_SCALE, on an amount in money units.
TIE_PAYOUT_SCALE(units) == units \div MONEY_SCALE

\* win_amount of a winning wager, in money units: round(amount * ratio), scaled
\* by TIE_PAYOUT_SCALE when the prediction is TIED.
win_amount(amount, total, winning_total, prediction) ==
    IF prediction = GameStatus_TIED
    THEN TIE_PAYOUT_SCALE(Shazbucks(PyRound(amount * total, winning_total)))
    ELSE Shazbucks(PyRound(amount * total, winning_total))

\* Variant: the loop without its "only bets on the winning outcome" branch.
resolve_one_pays_one_sided(d, wager_id, game_result, total, winning_total) ==
    LET w == d.wagers[wager_id]
        refund == create_transfer(d, DISCORD_ID, w.user_id, Shazbucks(w.amount))
    IN  IF game_result = GameStatus_CANCELLED
        THEN wager_result(refund, wager_id, WagerResult_CANCELLED)
        ELSE IF winning_total = 0
        THEN wager_result(refund, wager_id, WagerResult_CANCELLEDNOWINNERS)
        ELSE IF w.prediction = game_result
        THEN wager_result(create_transfer(d, DISCORD_ID, w.user_id,
                                          win_amount(w.amount, total, winning_total,
                                                     w.prediction)),
                          wager_id, WagerResult_WON)
        ELSE wager_result(d, wager_id, WagerResult_LOST)

\* One iteration of the "Resolve each individual bet" loop.
resolve_one(d, wager_id, game_result, total, winning_total) ==
    LET w == d.wagers[wager_id]
        refund == create_transfer(d, DISCORD_ID, w.user_id, Shazbucks(w.amount))
    IN  IF game_result = GameStatus_CANCELLED
        THEN wager_result(refund, wager_id, WagerResult_CANCELLED)
        ELSE IF winning_total = 0
        THEN wager_result(refund, wager_id, WagerResult_CANCELLEDNOWINNERS)
        ELSE IF total = winning_total
        THEN wager_result(refund, wager_id, WagerResult_CANCELLEDONESIDED)
        ELSE IF w.prediction = game_result
        THEN wager_result(create_transfer(d, DISCORD_ID, w.user_id,
                                          win_amount(w.amount, total, winning_total,
                                                     w.prediction)),
                          wager_id, WagerResult_WON)
        ELSE wager_result(d, wager_id, WagerResult_LOST)

RECURSIVE resolve_loop(_, _, _, _, _)
resolve_loop(d, ids, game_result, total, winning_total) ==
    IF ids = <<>> THEN d
    ELSE resolve_loop(resolve_one(d, Head(ids), game_result, total, winning_total),
                      Tail(ids), game_result, total, winning_total)

resolve_wagers(d, game_id, game_result) ==
    LET ids == InProgressWagers(d, game_id)
    IN  IF PredictionRaises(d, ids)
        THEN [db |-> d, raised |-> TRUE]
        ELSE [db |-> resolve_loop(d, ids, game_result, total_amount(d, ids),
                                  IF game_result \in Outcomes
                                  THEN TotalAmount(d, ids, game_result) ELSE 0),
              raised |-> FALSE]

RECURSIVE cancel_loop(_, _)
cancel_loop(d, ids) ==
    IF ids = <<>> THEN d
    ELSE LET w == d.wagers[Head(ids)]
         IN  cancel_loop(wager_result(create_transfer(d, DISCORD_ID, w.user_id,
                                                      Shazbucks(w.amount)),
                                      Head(ids), WagerResult_CANCELLED),
                         Tail(ids))

\* Variant: a roster change that leaves the wagers standing.
cancel_wagers_kept(d, game_id) == d

cancel_wagers(d, game_id) == cancel_loop(d, InProgressWagers(d, game_id))

\* The players of one team in roster order; the first one that has an account
\* is paid the captain's reward.
RECURSIVE pay_team(_, _, _)
pay_team(d, team, captain) ==
    IF team = <<>> THEN d
    ELSE IF Head(team) \in DOMAIN d.users
    THEN pay_team(create_transfer(d, DISCORD_ID, Head(team),
                                  Shazbucks(IF captain THEN BUCKS_PER_PUG * 2
                                            ELSE BUCKS_PER_PUG)),
                  Tail(team), FALSE)
    ELSE pay_team(d, Tail(team), captain)

pay_players(d, team1, team2) == pay_team(pay_team(d, team1, TRUE), team2, TRUE)

(***************************************************************************)
(* Account commands.                                                       *)
(***************************************************************************)
\* cmd_shazbucks creating the account with the initial balance on it.
cmd_shazbucks_no_transfer(d, discord_id) ==
    IF discord_id \notin DOMAIN d.users
    THEN [db |-> create_user(d, discord_id, Shazbucks(INIT_BAL)), success |-> TRUE]
    ELSE [db |-> d, success |-> FALSE]

cmd_shazbucks(d, discord_id) ==
    IF discord_id \notin DOMAIN d.users
    THEN [db |-> create_transfer(create_user(d, discord_id, 0),
                                 DISCORD_ID, discord_id, Shazbucks(INIT_BAL)),
          success |-> TRUE]
    ELSE [db |-> d, success |-> FALSE]

\* Variant: cmd_gift without its balance check.
cmd_gift_overdrawn(d, discord_id, receiver, amount) ==
    IF discord_id \notin DOMAIN d.users THEN [db |-> d, success |-> FALSE]
    ELSE IF amount < 0 THEN [db |-> d, success |-> FALSE]
    ELSE IF receiver \notin DOMAIN d.users THEN [db |-> d, success |-> FALSE]
    ELSE [db |-> create_transfer(d, discord_id, receiver, Shazbucks(amount)),
          success |-> TRUE]

cmd_gift(d, discord_id, receiver, amount) ==
    IF discord_id \notin DOMAIN d.users THEN [db |-> d, success |-> FALSE]
    ELSE IF d.users[discord_id] < Shazbucks(amount) THEN [db |-> d, success |-> FALSE]
    ELSE IF amount < 0 THEN [db |-> d, success |-> FALSE]
    ELSE IF receiver \notin DOMAIN d.users THEN [db |-> d, success |-> FALSE]
    ELSE [db |-> create_transfer(d, discord_id, receiver, Shazbucks(amount)),
          success |-> TRUE]

(***************************************************************************)
(* cmd_bet. winner is <<"side", 1 | 2 | 3>> for "1"/"Red", "2"/"Blue",      *)
(* "3"/"Tie", or <<"nick", name>> for any other word; game_id 0 means       *)
(* "not given".                                                            *)
(***************************************************************************)
time_since_pick(g) == now - g.pick_time

capt_nick(team) == Head(team)

\* The rows the SELECT of cmd_bet returns, as game ids in row order.
BetGamesOf(d, game_id) ==
    IF game_id = 0
    THEN SelectIds(d.games, LAMBDA g : g.status = GameStatus_INPROGRESS, 1)
    ELSE IF game_id \in 1..Len(d.games) /\ d.games[game_id].status = GameStatus_INPROGRESS
    THEN <<game_id>>
    ELSE <<>>

\* The for-loop over the games when winner is a captain's name: every game
\* whose captain matches adds to prediction and overwrites game_id.
RECURSIVE captain_loop(_, _, _, _)
captain_loop(d, ids, name, acc) ==
    IF ids = <<>> THEN acc
    ELSE LET g == d.games[Head(ids)]
             next == IF name = capt_nick(g.team1)
                     THEN [game_id |-> Head(ids),
                           prediction |-> acc.prediction + GameStatus_TEAM1,
                           time_since_pick |-> time_since_pick(g)]
                     ELSE IF name = capt_nick(g.team2)
                     THEN [game_id |-> Head(ids),
                           prediction |-> acc.prediction + GameStatus_TEAM2,
                           time_since_pick |-> time_since_pick(g)]
                     ELSE acc
         IN  captain_loop(d, Tail(ids), name, next)

\* game_id, prediction and time_since_pick as cmd_bet derives them from winner.
bet_target(d, ids, winner) ==
    LET last == ids[Len(ids)]
        g == d.games[last]
    IN  IF winner[1] = "side"
        THEN [game_id |-> last,
              prediction |-> CASE winner[2] = 1 -> GameStatus_TEAM1
                               [] winner[2] = 2 -> GameStatus_TEAM2
                               [] OTHER -> GameStatus_TIED,
              time_since_pick |-> time_since_pick(g)]
        ELSE captain_loop(d, ids, winner[2],
                          [game_id |-> last, prediction |-> 0, time_since_pick |-> 0])

\* cmd_bet finding no previous wager.
prev_wager_none(d, user_id, game_id) == <<>>

\* SELECT id, prediction FROM wagers WHERE user_id, game_id, result = INPROGRESS:
\* fetchone() takes the first row.
prev_wager(d, user_id, game_id) ==
    SelectIds(d.wagers,
              LAMBDA w : w.user_id = user_id /\ w.game_id = game_id
                         /\ w.result = WagerResult_INPROGRESS, 1)

\* Variant: cmd_bet without its "amount <= 0" refusal.
cmd_bet_begin_any_amount(d, discord_id, winner, amount, game_id) ==
    LET ids == BetGamesOf(d, game_id)
    IN  IF discord_id \notin DOMAIN d.users THEN [accepted |-> FALSE]
        ELSE IF d.users[discord_id] < Shazbucks(amount) THEN [accepted |-> FALSE]
        ELSE IF ids = <<>> THEN [accepted |-> FALSE]
        ELSE [accepted |-> TRUE,
              frame |-> [discord_id |-> discord_id, amount |-> amount,
                         target |-> bet_target(d, ids, winner),
                         bet_window |-> d.games[ids[Len(ids)]].bet_window]]

\* cmd_bet up to the captain-nick lookup: the account and amount checks and the
\* SELECT of the games; what it read is kept in the coroutine's frame.
cmd_bet_begin(d, discord_id, winner, amount, game_id) ==
    LET ids == BetGamesOf(d, game_id)
    IN  IF discord_id \notin DOMAIN d.users THEN [accepted |-> FALSE]
        ELSE IF d.users[discord_id] < Shazbucks(amount) THEN [accepted |-> FALSE]
        ELSE IF amount <= 0 THEN [accepted |-> FALSE]
        ELSE IF ids = <<>> THEN [accepted |-> FALSE]
        ELSE [accepted |-> TRUE,
              frame |-> [discord_id |-> discord_id, amount |-> amount,
                         target |-> bet_target(d, ids, winner),
                         bet_window |-> d.games[ids[Len(ids)]].bet_window]]

\* get_nick_from_discord_id is awaited for a side of a matchmaking-queue game
\* and, for a captain's name, for every matchmaking-queue game selected.
bet_awaits(d, winner, game_id) ==
    LET ids == BetGamesOf(d, game_id)
    IN  IF winner[1] = "side"
        THEN winner[2] \in 1..2 /\ d.games[ids[Len(ids)]].queue \in PugQueues
        ELSE \E i \in 1..Len(ids) : d.games[ids[i]].queue \in PugQueues

\* Variant: cmd_bet without its refusal of a bet against one's own wager.
cmd_bet_resume_hedged(d, frame) ==
    LET t == frame.target
        prev == prev_wager(d, frame.discord_id, t.game_id)
    IN  IF t.prediction = 0 THEN [db |-> d, success |-> FALSE]
        ELSE IF t.time_since_pick > frame.bet_window THEN [db |-> d, success |-> FALSE]
        ELSE IF prev # <<>>
        THEN [db |-> change_wager(d, prev[1], frame.amount), success |-> TRUE]
        ELSE [db |-> create_wager(d, frame.discord_id, t.game_id, t.prediction,
                                  frame.amount),
              success |-> TRUE]

\* cmd_bet from the lookup on: the prediction and bet-window checks, then the
\* SELECT of the previous wager and the amendment or the new wager.
cmd_bet_resume(d, frame) ==
    LET t == frame.target
        prev == prev_wager(d, frame.discord_id, t.game_id)
    IN  IF t.prediction = 0 THEN [db |-> d, success |-> FALSE]
        ELSE IF t.time_since_pick > frame.bet_window THEN [db |-> d, success |-> FALSE]
        ELSE IF prev # <<>> /\ t.prediction # d.wagers[prev[1]].prediction
        THEN [db |-> d, success |-> FALSE]
        ELSE IF prev # <<>>
        THEN [db |-> change_wager(d, prev[1], frame.amount), success |-> TRUE]
        ELSE [db |-> create_wager(d, frame.discord_id, t.game_id, t.prediction,
                                  frame.amount),
              success |-> TRUE]

cmd_bet(d, discord_id, winner, amount, game_id) ==
    LET begun == cmd_bet_begin(d, discord_id, winner, amount, game_id)
    IN  IF begun.accepted THEN cmd_bet_resume(d, begun.frame)
        ELSE [db |-> d, success |-> FALSE]

(***************************************************************************)
(* Administrative commands. result is <<"side", 1 .. 4>> for the words     *)
(* "1"/"Red"/"Team1", "2"/"Blue"/"Team2", "3"/"Tie", "4"/"Cancel", or      *)
(* <<"nick", name>> for any other word.                                    *)
(***************************************************************************)
result_status(result, nick1, nick2) ==
    IF result = <<"side", 1>> \/ result = <<"nick", nick1>> THEN GameStatus_TEAM1
    ELSE IF result = <<"side", 2>> \/ result = <<"nick", nick2>> THEN GameStatus_TEAM2
    ELSE IF result = <<"side", 3>> THEN GameStatus_TIED
    ELSE IF result = <<"side", 4>> THEN GameStatus_CANCELLED
    ELSE 0

cmd_start_game(d, discord_id, outcome1, outcome2, bet_window) ==
    IF discord_id \notin DOMAIN d.users THEN [db |-> d, success |-> FALSE]
    ELSE [db |-> pick_game(create_game(d, CustomQueue, <<outcome1>>, <<outcome2>>,
                                       bet_window),
                           Len(d.games) + 1, <<outcome1>>, <<outcome2>>),
          success |-> TRUE]

cmd_end_game(d, discord_id, game_id, result) ==
    IF discord_id \notin DOMAIN d.users THEN [db |-> d, success |-> FALSE]
    ELSE IF ~(game_id \in 1..Len(d.games)
              /\ d.games[game_id].status = GameStatus_INPROGRESS)
    THEN [db |-> d, success |-> FALSE]
    ELSE IF d.games[game_id].queue \in PugQueues THEN [db |-> d, success |-> FALSE]
    ELSE LET g == d.games[game_id]
             status == result_status(result, capt_nick(g.team1), capt_nick(g.team2))
             r == resolve_wagers(finish_game(d, game_id, status), game_id, status)
         IN  IF status = 0 THEN [db |-> d, success |-> FALSE]
             ELSE [db |-> r.db, success |-> ~r.raised]

\* The wagers cmd_change_game reads: every wager of the game whose result is
\* neither CANCELLED nor CANCELLEDONESIDED.
ChangeWagers(d, game_id) ==
    SelectIds(d.wagers,
              LAMBDA w : w.game_id = game_id /\ w.result # WagerResult_CANCELLED
                         /\ w.result # WagerResult_CANCELLEDONESIDED, 1)

\* One iteration of the "Claw back previous payout" loop.
clawback_one(d, wager_id, old_status, total, winning_total) ==
    LET w == d.wagers[wager_id]
    IN  IF winning_total = 0
        THEN wager_result(create_transfer(d, w.user_id, DISCORD_ID, Shazbucks(w.amount)),
                          wager_id, WagerResult_INPROGRESS)
        ELSE IF w.prediction = old_status
        THEN wager_result(create_transfer(d, w.user_id, DISCORD_ID,
                                          win_amount(w.amount, total, winning_total,
                                                     w.prediction)),
                          wager_id, WagerResult_INPROGRESS)
        ELSE wager_result(d, wager_id, WagerResult_INPROGRESS)

RECURSIVE clawback_loop(_, _, _, _, _)
clawback_loop(d, ids, old_status, total, winning_total) ==
    IF ids = <<>> THEN d
    ELSE clawback_loop(clawback_one(d, Head(ids), old_status, total, winning_total),
                       Tail(ids), old_status, total, winning_total)

clawback(d, game_id, old_status) ==
    LET ids == ChangeWagers(d, game_id)
    IN  clawback_loop(finish_game(d, game_id, GameStatus_INPROGRESS), ids, old_status,
                      total_amount(d, ids),
                      IF old_status \in Outcomes THEN TotalAmount(d, ids, old_status)
                      ELSE 0)

ChangeableStatus ==
    {GameStatus_INPROGRESS, GameStatus_CANCELLED, GameStatus_TEAM1, GameStatus_TEAM2,
     GameStatus_TIED}

\* Variant: no refusal when the new status is the current status.
cmd_change_game_same_status(d, discord_id, game_id, result) ==
    IF discord_id \notin DOMAIN d.users THEN [db |-> d, success |-> FALSE]
    ELSE IF ~(game_id \in 1..Len(d.games) /\ d.games[game_id].status \in ChangeableStatus)
    THEN [db |-> d, success |-> FALSE]
    ELSE LET g == d.games[game_id]
             old_status == g.status
             new_status == result_status(result, capt_nick(g.team1), capt_nick(g.team2))
             clawed == IF old_status # GameStatus_INPROGRESS
                       THEN clawback(d, game_id, old_status) ELSE d
             r == resolve_wagers(finish_game(clawed, game_id, new_status),
                                 game_id, new_status)
         IN  IF new_status = 0 THEN [db |-> d, success |-> FALSE]
             ELSE IF old_status = GameStatus_CANCELLED THEN [db |-> d, success |-> FALSE]
             ELSE IF PredictionRaises(d, ChangeWagers(d, game_id))
             THEN [db |-> d, success |-> FALSE]
             ELSE [db |-> r.db, success |-> ~r.raised]

\* Variant: no refusal when the current status is CANCELLED.
cmd_change_game_from_cancelled(d, discord_id, game_id, result) ==
    IF discord_id \notin DOMAIN d.users THEN [db |-> d, success |-> FALSE]
    ELSE IF ~(game_id \in 1..Len(d.games) /\ d.games[game_id].status \in ChangeableStatus)
    THEN [db |-> d, success |-> FALSE]
    ELSE LET g == d.games[game_id]
             old_status == g.status
             new_status == result_status(result, capt_nick(g.team1), capt_nick(g.team2))
             clawed == IF old_status # GameStatus_INPROGRESS
                       THEN clawback(d, game_id, old_status) ELSE d
             r == resolve_wagers(finish_game(clawed, game_id, new_status),
                                 game_id, new_status)
         IN  IF new_status = 0 THEN [db |-> d, success |-> FALSE]
             ELSE IF new_status = old_status THEN [db |-> d, success |-> FALSE]
             ELSE IF PredictionRaises(d, ChangeWagers(d, game_id))
             THEN [db |-> d, success |-> FALSE]
             ELSE [db |-> r.db, success |-> ~r.raised]

cmd_change_game(d, discord_id, game_id, result) ==
    IF discord_id \notin DOMAIN d.users THEN [db |-> d, success |-> FALSE]
    ELSE IF ~(game_id \in 1..Len(d.games) /\ d.games[game_id].status \in ChangeableStatus)
    THEN [db |-> d, success |-> FALSE]
    ELSE LET g == d.games[game_id]
             old_status == g.status
             new_status == result_status(result, capt_nick(g.team1), capt_nick(g.team2))
             clawed == IF old_status # GameStatus_INPROGRESS
                       THEN clawback(d, game_id, old_status) ELSE d
             r == resolve_wagers(finish_game(clawed, game_id, new_status),
                                 game_id, new_status)
         IN  IF new_status = 0 THEN [db |-> d, success |-> FALSE]
             ELSE IF new_status = old_status THEN [db |-> d, success |-> FALSE]
             ELSE IF old_status = GameStatus_CANCELLED THEN [db |-> d, success |-> FALSE]
             ELSE IF PredictionRaises(d, ChangeWagers(d, game_id))
             THEN [db |-> d, success |-> FALSE]
             ELSE [db |-> r.db, success |-> ~r.raised]

(***************************************************************************)
(* Events parsed from the matchmaking bot's messages (on_message).         *)
(* Rosters are sequences of member ids, captain first.                     *)
(***************************************************************************)
InTeam(p, team) == \E i \in 1..Len(team) : team[i] = p

Replace(team, old, new) == [i \in 1..Len(team) |-> IF team[i] = old THEN new ELSE team[i]]

RECURSIVE Reverse(_)
Reverse(s) == IF s = <<>> THEN <<>> ELSE Append(Reverse(Tail(s)), Head(s))

game_begun(d, queue, capt1, capt2, others) ==
    [db |-> create_game(d, queue, <<capt1>> \o others, <<capt2>>, BET_WINDOW),
     success |-> TRUE]

\* Variant: the SELECT of game_picked without its status filter.
PickCandidates_any_status(d, queue) ==
    Reverse(SelectIds(d.games, LAMBDA g : g.queue = queue, 1))

\* Games of the queue that are Picking or InProgress, latest start first (rows
\* are inserted in start order, so this is descending row order).
PickCandidates(d, queue) ==
    Reverse(SelectIds(d.games,
                      LAMBDA g : g.queue = queue
                                 /\ g.status \in {GameStatus_PICKING, GameStatus_INPROGRESS},
                      1))

\* The first candidate whose two captains are the picked captains, or 0.
RECURSIVE PickMatch(_, _, _, _)
PickMatch(d, ids, nick1, nick2) ==
    IF ids = <<>> THEN 0
    ELSE LET g == d.games[Head(ids)]
         IN  IF <<nick1, nick2>> = <<capt_nick(g.team1), capt_nick(g.team2)>>
                \/ <<nick1, nick2>> = <<capt_nick(g.team2), capt_nick(g.team1)>>
             THEN Head(ids)
             ELSE PickMatch(d, Tail(ids), nick1, nick2)

game_picked(d, queue, team1, team2) ==
    LET found == PickMatch(d, PickCandidates(d, queue), capt_nick(team1), capt_nick(team2))
        created == IF found = 0 THEN create_game(d, queue, team1, team2, BET_WINDOW) ELSE d
        game_id == IF found = 0 THEN Len(d.games) + 1 ELSE found
        repick == IF created.games[game_id].status = GameStatus_INPROGRESS
                  THEN cancel_wagers(created, game_id) ELSE created
    IN  [db |-> pick_game(repick, game_id, team1, team2), success |-> TRUE]

game_cancelled(d) ==
    LET ids == SelectIds(d.games, LAMBDA g : g.status = GameStatus_PICKING, 1)
    IN  IF Len(ids) = 1
        THEN [db |-> cancel_game(d, ids[1]), success |-> TRUE]
        ELSE [db |-> d, success |-> FALSE]

\* winner is a captain's member id, or 0 for a tie.
FinishCandidates(d, queue, winner) ==
    SelectIds(d.games,
              LAMBDA g : g.queue = queue /\ g.status = GameStatus_INPROGRESS
                         /\ (winner = 0 \/ capt_nick(g.team1) = winner
                             \/ capt_nick(g.team2) = winner),
              1)

\* min((val, idx) for (idx, val) in enumerate(duration_offsets)): the candidate
\* with the smallest time since start, the first such in row order.
FinishChoice(d, ids) ==
    LET offset(i) == now - d.games[ids[i]].start_time
        idx == CHOOSE i \in 1..Len(ids) :
                   \A j \in 1..Len(ids) :
                       offset(i) < offset(j) \/ (offset(i) = offset(j) /\ i <= j)
    IN  ids[idx]

\* Rating(): the default prior of the trueskill package.
Rating == [teams |-> <<>>, ranks |-> <<>>, team |-> 0, player |-> 0]

\* rate(rating_groups, ranks)[team][player] of the trueskill package: the
\* rating it computes is a function of the ratings of both teams, the ranks
\* and the player's place.
rate(team_ratings, ranks, team, player) ==
    [teams |-> team_ratings, ranks |-> ranks, team |-> team, player |-> player]

\* SELECT mu, sigma FROM trueskills WHERE discord_id = ? AND game_id IN
\* (SELECT MAX(game_id) FROM trueskills WHERE discord_id = ?): fetchone()
\* takes the first such row, Rating() stands in when there is none.
latest_rating(d, discord_id) ==
    LET mine == {i \in 1..Len(d.trueskills) : d.trueskills[i].discord_id = discord_id}
        top == {i \in mine : \A j \in mine :
                                 d.trueskills[j].game_id <= d.trueskills[i].game_id}
    IN  IF mine = {} THEN Rating
        ELSE d.trueskills[CHOOSE i \in top : \A j \in top : i <= j].rating

ranks_of(game_result) ==
    IF game_result = GameStatus_TEAM1 THEN <<0, 1>>
    ELSE IF game_result = GameStatus_TEAM2 THEN <<1, 0>>
    ELSE <<0, 0>>

\* The trueskill block of game_finished: one INSERT INTO trueskills per player
\* of both teams, in team order.
update_trueskills(d, game_id, team1, team2, game_result) ==
    LET teams == <<team1, team2>>
        team_ratings == [t \in 1..2 |->
                            [p \in 1..Len(teams[t]) |-> latest_rating(d, teams[t][p])]]
        new_rows(t) == [p \in 1..Len(teams[t]) |->
                           [discord_id |-> teams[t][p], game_id |-> game_id,
                            rating |-> rate(team_ratings, ranks_of(game_result), t, p)]]
    IN  [d EXCEPT !.trueskills = @ \o new_rows(1) \o new_rows(2)]

game_finished(d, queue, winner) ==
    LET ids == FinishCandidates(d, queue, winner)
        game_id == FinishChoice(d, ids)
        g == d.games[game_id]
        game_result == IF winner = 0 THEN GameStatus_TIED
                       ELSE IF winner = capt_nick(g.team1) THEN GameStatus_TEAM1
                       ELSE IF winner = capt_nick(g.team2) THEN GameStatus_TEAM2
                       ELSE 0
        r == resolve_wagers(finish_game(d, game_id, game_result), game_id, game_result)
    IN  IF ids = <<>> THEN [db |-> d, success |-> FALSE]
        ELSE IF game_result = 0 THEN [db |-> d, success |-> FALSE]
        ELSE IF r.raised THEN [db |-> r.db, success |-> FALSE]
        ELSE [db |-> update_trueskills(pay_players(r.db, g.team1, g.team2), game_id,
                                       g.team1, g.team2, game_result),
              success |-> TRUE]

RosterCandidates(d, player, statuses) ==
    SelectIds(d.games,
              LAMBDA g : g.status \in statuses /\ (InTeam(player, g.team1)
                                                    \/ InTeam(player, g.team2)),
              1)

sub_player(d, old_player, new_player) ==
    LET ids == RosterCandidates(d, old_player,
                                {GameStatus_PICKING, GameStatus_INPROGRESS})
        game_id == ids[Len(ids)]
        g == d.games[game_id]
        updated == IF InTeam(old_player, g.team1)
                   THEN update_teams(d, game_id, Replace(g.team1, old_player, new_player),
                                     g.team2)
                   ELSE update_teams(d, game_id, g.team1,
                                     Replace(g.team2, old_player, new_player))
    IN  IF ids = <<>> THEN [db |-> d, success |-> FALSE]
        ELSE IF g.status = GameStatus_INPROGRESS
        THEN [db |-> cancel_wagers(updated, game_id), success |-> TRUE]
        ELSE [db |-> updated, success |-> TRUE]

SwapCandidates(d, player1, player2) ==
    SelectIds(d.games,
              LAMBDA g : g.status = GameStatus_INPROGRESS
                         /\ ((InTeam(player1, g.team1) /\ InTeam(player2, g.team2))
                             \/ (InTeam(player2, g.team1) /\ InTeam(player1, g.team2))),
              1)

swap_player(d, player1, player2) ==
    LET ids == SwapCandidates(d, player1, player2)
        game_id == ids[Len(ids)]
        g == d.games[game_id]
        updated == IF InTeam(player1, g.team1) /\ InTeam(player2, g.team2)
                   THEN update_teams(d, game_id, Replace(g.team1, player1, player2),
                                     Replace(g.team2, player2, player1))
                   ELSE update_teams(d, game_id, Replace(g.team1, player2, player1),
                                     Replace(g.team2, player1, player2))
    IN  IF ids = <<>> THEN [db |-> d, success |-> FALSE]
        ELSE [db |-> cancel_wagers(updated, game_id), success |-> TRUE]

\* query_members: the member whose display name is the nick, or None (0).
query_members(nick) == IF nick \in Members THEN nick ELSE 0

\* A roster message names players by nick; (await query_members(nick)).id
\* raises AttributeError on None before the handler has done anything.
Unknown(nick1, nick2) == query_members(nick1) = 0 \/ query_members(nick2) = 0

Crashed(d) == [db |-> d, success |-> FALSE, raised |-> TRUE]

Reacted(res) == [db |-> res.db, success |-> res.success, raised |-> FALSE]

sub_player_message(d, old_player, new_player) ==
    IF Unknown(old_player, new_player) THEN Crashed(d)
    ELSE Reacted(sub_player(d, query_members(old_player), query_members(new_player)))

swap_player_message(d, player1, player2) ==
    IF Unknown(player1, player2) THEN Crashed(d)
    ELSE Reacted(swap_player(d, query_members(player1), query_members(player2)))

\* team1 LIKE 'old%' OR team2 LIKE 'old%': the old captain leads a team.
CaptainCandidates(d, old_capt) ==
    SelectIds(d.games,
              LAMBDA g : g.status \in {GameStatus_PICKING, GameStatus_INPROGRESS}
                         /\ (capt_nick(g.team1) = old_capt
                             \/ capt_nick(g.team2) = old_capt),
              1)

\* The three replace() calls exchange the two ids wherever they stand.
Exchange(team, old, new) ==
    [i \in 1..Len(team) |-> IF team[i] = old THEN new
                            ELSE IF team[i] = new THEN old ELSE team[i]]

\* (old in team1 or team2) and (new in team1 or team2): Python reads it as
\* ((old in team1) or team2) and ((new in team1) or team2), true whenever
\* team2 is not empty.
replaced_captain(d, new_capt, old_capt) ==
    LET old == query_members(old_capt)
        new == query_members(new_capt)
        ids == CaptainCandidates(d, old)
        game_id == ids[Len(ids)]
        g == d.games[game_id]
    IN  IF Unknown(new_capt, old_capt) THEN Crashed(d)
        ELSE IF ids = <<>> THEN [db |-> d, success |-> FALSE, raised |-> FALSE]
        ELSE IF (InTeam(old, g.team1) \/ g.team2 # <<>>)
                /\ (InTeam(new, g.team1) \/ g.team2 # <<>>)
        THEN [db |-> update_teams(d, game_id, Exchange(g.team1, old, new),
                                  Exchange(g.team2, old, new)),
              success |-> TRUE, raised |-> FALSE]
        ELSE [db |-> d, success |-> FALSE, raised |-> FALSE]

(***************************************************************************)
(* The state machine: one action per command or event, handled one at a    *)
(* time (section 5 of the specification).                                  *)
(***************************************************************************)
Init ==
    /\ users = (DISCORD_ID :> 0)
    /\ transfers = (DISCORD_ID :> 0)
    /\ games = <<>>
    /\ wagers = <<>>
    /\ trueskills = <<>>
    /\ now = 0
    /\ awaiting = EmptyBag

\* The environment stops issuing events once the tables are full.
Within(d) ==
    /\ Len(d.games) <= MaxGames
    /\ Len(d.wagers) <= MaxWagers

\* What the environment sends.  Admins hold the admin role; gifts go from the
\* first member to the second; the matchmaking bot announces matches captained
\* by the first two members, the third joining as a substitute; the first two
\* members open accounts.
Admins == {1}
BetAmounts == 0..MaxAmount
GiftAmounts == -1..MaxGift
GiftPairs == {<<1, 2>>}
Sides(n) == {<<"side", k>> : k \in 1..n}
Nicks == {<<"nick", name>> : name \in Names}
BetWinners == Sides(3) \cup {<<"nick", 1>>, <<"nick", NumMembers + 1>>}
Results == Sides(4) \cup {<<"nick", NumMembers + 1>>}
Rosters == {<<<<1>>, <<2>>>>}
Subs == {<<2, 3>>}
Swaps == {<<1, 2>>}

Registrants == {1, 2}

Handle(res) == Store(res.db) /\ UNCHANGED <<now, awaiting>>

\* A handler that may insert a game or a wager row.
HandleNew(res) == Within(res.db) /\ Handle(res)

Shazbucks_cmd == \E m \in Registrants : Handle(cmd_shazbucks(DB, m))

Gift_cmd ==
    \E pair \in GiftPairs, amount \in GiftAmounts :
        Handle(cmd_gift(DB, pair[1], pair[2], amount))

Bet_cmd ==
    \E m \in Members, winner \in BetWinners, amount \in BetAmounts,
       game_id \in 0..Len(games) :
        HandleNew(cmd_bet(DB, m, winner, amount, game_id))

StartGame_cmd ==
    \E m \in Admins :
        HandleNew(cmd_start_game(DB, m, NumMembers + 1, NumMembers + 2, BET_WINDOW))

EndGame_cmd ==
    \E m \in Admins, game_id \in 1..(Len(games) + 1), result \in Results :
        Handle(cmd_end_game(DB, m, game_id, result))

ChangeGame_cmd ==
    \E m \in Admins, game_id \in 1..(Len(games) + 1), result \in Results :
        Handle(cmd_change_game(DB, m, game_id, result))

GameBegun ==
    \E queue \in PugQueues, teams \in Rosters :
        HandleNew(game_begun(DB, queue, teams[1][1], teams[2][1],
                          Tail(teams[1]) \o Tail(teams[2])))

GamePicked ==
    \E queue \in PugQueues, teams \in Rosters :
        HandleNew(game_picked(DB, queue, teams[1], teams[2]))

GameCancelled == Handle(game_cancelled(DB))

GameFinished ==
    \E queue \in PugQueues, winner \in {0} \cup Members :
        Handle(game_finished(DB, queue, winner))

SubPlayer == \E sub \in Subs : Handle(sub_player(DB, sub[1], sub[2]))

SwapPlayer == \E swap \in Swaps : Handle(swap_player(DB, swap[1], swap[2]))

Next ==
    \/ Shazbucks_cmd
    \/ Gift_cmd
    \/ Bet_cmd
    \/ StartGame_cmd
    \/ EndGame_cmd
    \/ ChangeGame_cmd
    \/ GameBegun
    \/ GamePicked
    \/ GameCancelled
    \/ GameFinished
    \/ SubPlayer
    \/ SwapPlayer

Spec == Init /\ [][Next]_vars

(***************************************************************************)
(* Settlement of a betting pool.  A pool is the database after every       *)
(* member has opened an account, an admin has started PoolGames custom     *)
(* games with the same two outcome labels, and every member has placed at  *)
(* most one bet; it is built with the handlers above, so every pool is a   *)
(* state the program reaches.  From a pool the admin ends the games and    *)
(* corrects their results.                                                 *)
(***************************************************************************)
EmptyDB ==
    [users |-> (DISCORD_ID :> 0), transfers |-> (DISCORD_ID :> 0), inserted |-> EmptyBag,
     games |-> <<>>, wagers |-> <<>>, trueskills |-> <<>>]

RECURSIVE Registered(_)
Registered(n) ==
    IF n = 0 THEN EmptyDB ELSE cmd_shazbucks(Registered(n - 1), n).db

RECURSIVE Started(_, _)
Started(d, n) ==
    IF n = 0 THEN d
    ELSE cmd_start_game(Started(d, n - 1), 1, NumMembers + 1, NumMembers + 2, BET_WINDOW).db

\* A member's bet: none, or <<winner, amount, game_id>>.
PoolBets == {<<>>} \cup (BetWinners \X (1..MaxStake) \X (0..PoolGames))

RECURSIVE Placed(_, _, _)
Placed(d, bets, n) ==
    IF n = 0 THEN d
    ELSE LET before == Placed(d, bets, n - 1)
         IN  IF bets[n] = <<>> THEN before
             ELSE cmd_bet(before, n, bets[n][1], bets[n][2], bets[n][3]).db

Pool(bets) == Placed(Started(Registered(NumMembers), PoolGames), bets, NumMembers)

InitSettle ==
    /\ now = 0
    /\ awaiting = EmptyBag
    /\ \E bets \in [Members -> PoolBets] :
        /\ users = Pool(bets).users
        /\ transfers = Pool(bets).transfers
        /\ games = Pool(bets).games
        /\ wagers = Pool(bets).wagers
        /\ trueskills = Pool(bets).trueskills

NextSettle ==
    \/ EndGame_cmd
    \/ ChangeGame_cmd

SpecSettle == InitSettle /\ [][NextSettle]_vars

(***************************************************************************)
(* Overlapping bet commands.  discord.py runs every command as a coroutine *)
(* on one event loop: a cmd_bet that awaits the captain-nick lookup is     *)
(* suspended there while other commands run.  The bets are placed on a     *)
(* matchmaking-queue match between the first two members, who both have   *)
(* an account.                                                             *)
(***************************************************************************)
InitBet ==
    /\ now = 0
    /\ awaiting = EmptyBag
    /\ LET d == game_picked(Registered(Cardinality(Registrants)), "NA", <<1>>, <<2>>).db
       IN  /\ users = d.users
           /\ transfers = d.transfers
           /\ games = d.games
           /\ wagers = d.wagers
           /\ trueskills = d.trueskills

BetBegin ==
    \E m \in Members, winner \in BetWinners, amount \in 1..MaxStake,
       game_id \in 0..Len(games) :
        LET begun == cmd_bet_begin(DB, m, winner, amount, game_id)
        IN  /\ begun.accepted
            /\ bet_awaits(DB, winner, game_id)
            /\ BagCardinality(awaiting) < MaxAwaiting
            /\ awaiting' = awaiting (+) SetToBag({begun.frame})
            /\ UNCHANGED <<users, transfers, games, wagers, trueskills, now>>

BetResume ==
    \E frame \in BagToSet(awaiting) :
        /\ Store(cmd_bet_resume(DB, frame).db)
        /\ awaiting' = awaiting (-) SetToBag({frame})
        /\ UNCHANGED now

\* A cmd_bet that reaches no await before it returns or writes.
BetNow ==
    \E m \in Members, winner \in BetWinners, amount \in 0..MaxStake,
       game_id \in 0..Len(games) :
        /\ ~(cmd_bet_begin(DB, m, winner, amount, game_id).accepted
             /\ bet_awaits(DB, winner, game_id))
        /\ Handle(cmd_bet(DB, m, winner, amount, game_id))

\* The matchmaking bot reports the match finished while bets are suspended.
BetFinished ==
    \E queue \in PugQueues, winner \in {0, 1, 2} :
        Handle(game_finished(DB, queue, winner))

NextBet ==
    \/ BetBegin
    \/ BetResume
    \/ BetNow
    \/ BetFinished

SpecBet == InitBet /\ [][NextBet]_vars

(***************************************************************************)
(* Bet placement under a clock: one member with an account and one without *)
(* send !bet while an admin opens custom games with different bet windows  *)
(* and the minutes pass.                                                   *)
(***************************************************************************)
\* !start_game outcome1 outcome2 bet_window, as the admin types it: the two
\* games share their second outcome label and differ in their bet window.
StartChoices ==
    {<<NumMembers + 1, NumMembers + 2, BET_WINDOW>>,
     <<NumMembers + 3, NumMembers + 2, BET_WINDOW + 1>>}

PlaceWinners ==
    Sides(3) \cup {<<"nick", NumMembers + k>> : k \in 1..3}

PlaceBettors == {1, NumMembers}

PlaceAmounts == -1..(MaxStake + 1)

InitPlace ==
    /\ now = 0
    /\ awaiting = EmptyBag
    /\ LET d == Registered(1)
       IN  /\ users = d.users
           /\ transfers = d.transfers
           /\ games = d.games
           /\ wagers = d.wagers
           /\ trueskills = d.trueskills

\* A minute passes (julianday('now') in the SELECT of cmd_bet, time.time() in
\* create_game and pick_game).
Tick ==
    /\ now < MaxTime
    /\ now' = now + 1
    /\ UNCHANGED <<users, transfers, games, wagers, trueskills, awaiting>>

StartPlace ==
    \E c \in StartChoices :
        /\ Len(games) < PlaceGames
        /\ Handle(cmd_start_game(DB, 1, c[1], c[2], c[3]))

BetPlace ==
    \E m \in PlaceBettors, winner \in PlaceWinners, amount \in PlaceAmounts,
       game_id \in 0..Len(games) :
        Handle(cmd_bet(DB, m, winner, amount, game_id))

NextPlace ==
    \/ Tick
    \/ StartPlace
    \/ BetPlace

SpecPlace == InitPlace /\ [][NextPlace]_vars

(***************************************************************************)
(* Matchmaking under a clock: the matchmaking bot announces matches of the *)
(* first two members, picks and re-picks them, substitutes and swaps       *)
(* players while the minutes pass and the first member bets.               *)
(***************************************************************************)
PugTeams == {<<<<1>>, <<2>>>>, <<<<2>>, <<1>>>>}

PugSubs == {<<2, NumMembers>>}

InitPug == InitPlace

PugBegun ==
    \E queue \in PugQueues :
        /\ Len(games) < PlaceGames
        /\ Handle(game_begun(DB, queue, 1, 2, <<>>))

PugPicked ==
    \E queue \in PugQueues, teams \in PugTeams :
        LET res == game_picked(DB, queue, teams[1], teams[2])
        IN  /\ Len(res.db.games) <= PlaceGames
            /\ Handle(res)

PugBet ==
    \E winner \in Sides(2), amount \in 1..MaxAmount, game_id \in 0..Len(games) :
        LET res == cmd_bet(DB, 1, winner, amount, game_id)
        IN  /\ Len(res.db.wagers) <= MaxWagers
            /\ Handle(res)

PugSub == \E pair \in PugSubs : Handle(sub_player(DB, pair[1], pair[2]))

PugSwap == \E pair \in Swaps : Handle(swap_player(DB, pair[1], pair[2]))

NextPug ==
    \/ Tick
    \/ PugBegun
    \/ PugPicked
    \/ PugBet
    \/ PugSub
    \/ PugSwap

SpecPug == InitPug /\ [][NextPug]_vars

(***************************************************************************)
(* Storage faults: sqlite3 raises at one statement of create_transfer.     *)
(* Every statement is committed on its own and no caller catches the       *)
(* exception, so the statements before the failing one stay applied.       *)
(* step is 0 for no fault, 1 for the INSERT of the transfer row, 2 for the *)
(* sender's UPDATE and 3 for the receiver's UPDATE.                        *)
(***************************************************************************)
FaultSteps == 0..3

\* returned is "rowid" for the id of the new row, "zero" for the return value 0
\* and "raised" for the exception of sqlite3 leaving the function.
create_transfer_fault(d, sender, receiver, amount, step) ==
    CASE step = 1 -> [db |-> d, returned |-> "raised"]
      [] step = 2 -> [db |-> insert_transfer(d, sender, receiver, amount),
                      returned |-> "raised"]
      [] step = 3 -> [db |-> change_balance(insert_transfer(d, sender, receiver, amount),
                                            sender, -amount),
                      returned |-> "raised"]
      [] OTHER -> [db |-> create_transfer(d, sender, receiver, amount), returned |-> "rowid"]

create_wager_fault(d, user_id, game_id, prediction, amount, step) ==
    LET row == [d EXCEPT !.wagers = Append(@, [user_id |-> user_id, game_id |-> game_id,
                                               prediction |-> prediction, amount |-> amount,
                                               result |-> WagerResult_INPROGRESS])]
    IN  create_transfer_fault(row, user_id, DISCORD_ID, Shazbucks(amount), step)

change_wager_fault(d, wager_id, amount_change, step) ==
    LET row == [d EXCEPT !.wagers[wager_id].amount = @ + amount_change]
    IN  create_transfer_fault(row, d.wagers[wager_id].user_id, DISCORD_ID,
                              Shazbucks(amount_change), step)

cmd_gift_fault(d, discord_id, receiver, amount, step) ==
    IF discord_id \notin DOMAIN d.users THEN [db |-> d, success |-> FALSE]
    ELSE IF d.users[discord_id] < Shazbucks(amount) THEN [db |-> d, success |-> FALSE]
    ELSE IF amount < 0 THEN [db |-> d, success |-> FALSE]
    ELSE IF receiver \notin DOMAIN d.users THEN [db |-> d, success |-> FALSE]
    ELSE [db |-> create_transfer_fault(d, discord_id, receiver, Shazbucks(amount), step).db,
          success |-> step = 0]

cmd_bet_fault(d, discord_id, winner, amount, game_id, step) ==
    LET begun == cmd_bet_begin(d, discord_id, winner, amount, game_id)
        t == begun.frame.target
        prev == prev_wager(d, discord_id, t.game_id)
    IN  IF ~begun.accepted THEN [db |-> d, success |-> FALSE]
        ELSE IF t.prediction = 0 THEN [db |-> d, success |-> FALSE]
        ELSE IF t.time_since_pick > begun.frame.bet_window THEN [db |-> d, success |-> FALSE]
        ELSE IF prev # <<>> /\ t.prediction # d.wagers[prev[1]].prediction
        THEN [db |-> d, success |-> FALSE]
        ELSE IF prev # <<>>
        THEN [db |-> change_wager_fault(d, prev[1], amount, step).db, success |-> step = 0]
        ELSE [db |-> create_wager_fault(d, discord_id, t.game_id, t.prediction, amount,
                                        step).db,
              success |-> step = 0]

\* Every balance is what the transfer rows say.
Consistent(d) == \A u \in DOMAIN d.users : d.users[u] = d.transfers[u]

\* House holds the stakes of the wagers, all of them InProgress here.
StakesHeld(d) ==
    d.users[DISCORD_ID] + Shazbucks(INIT_BAL) * (Cardinality(DOMAIN d.users) - 1)
        = Shazbucks(SeqSum([i \in 1..Len(d.wagers) |-> d.wagers[i].amount]))

\* One storage fault per run: a statement fails only on a database that no
\* fault has touched.
FaultAllowed(step) == step = 0 \/ (Consistent(DB) /\ StakesHeld(DB))

FaultPairs == {<<1, 2>>, <<2, 1>>}

InitFault ==
    /\ now = 0
    /\ awaiting = EmptyBag
    /\ LET d == Started(Registered(2), 1)
       IN  /\ users = d.users
           /\ transfers = d.transfers
           /\ games = d.games
           /\ wagers = d.wagers
           /\ trueskills = d.trueskills

FaultGift ==
    \E pair \in FaultPairs, amount \in 0..MaxGift, step \in FaultSteps :
        /\ FaultAllowed(step)
        /\ Handle(cmd_gift_fault(DB, pair[1], pair[2], amount, step))

FaultBet ==
    \E m \in 1..2, winner \in Sides(2), amount \in 1..MaxStake, step \in FaultSteps :
        /\ FaultAllowed(step)
        /\ Handle(cmd_bet_fault(DB, m, winner, amount, 1, step))

NextFault ==
    \/ FaultGift
    \/ FaultBet

SpecFault == InitFault /\ [][NextFault]_vars

(***************************************************************************)
(* Skill ratings.  The matchmaking bot reports teams picked and games      *)
(* finished in one queue; the first member, a captain of every game, bets  *)
(* on them.  A game that finished makes room for a new one with the same   *)
(* captains.                                                               *)
(***************************************************************************)
SkillGames == 3

SkillWagers == 1

SkillTeams == {<<<<1>>, <<2>>>>, <<<<1>>, <<NumMembers>>>>}

SkillWinners == Sides(2) \cup {<<"nick", 1>>}

InitSkill ==
    /\ now = 0
    /\ awaiting = EmptyBag
    /\ LET d == Registered(1)
       IN  /\ users = d.users
           /\ transfers = d.transfers
           /\ games = d.games
           /\ wagers = d.wagers
           /\ trueskills = d.trueskills

SkillPicked ==
    \E queue \in PugQueues, teams \in SkillTeams :
        LET res == game_picked(DB, queue, teams[1], teams[2])
        IN  /\ Len(res.db.games) <= SkillGames
            /\ Handle(res)

SkillBet ==
    \E winner \in SkillWinners, amount \in 1..MaxAmount, game_id \in 0..Len(games) :
        LET res == cmd_bet(DB, 1, winner, amount, game_id)
        IN  /\ Len(res.db.wagers) <= SkillWagers
            /\ Handle(res)

SkillFinished ==
    \E queue \in PugQueues, winner \in {0} \cup Members :
        Handle(game_finished(DB, queue, winner))

NextSkill ==
    \/ SkillPicked
    \/ SkillBet
    \/ SkillFinished

SpecSkill == InitSkill /\ [][NextSkill]_vars

(***************************************************************************)
(* Matchmaking events.  The first and the last member hold accounts, the   *)
(* second does not.  The matchmaking bot announces matches captained by    *)
(* the first two members, the last one joining the second team, picks,     *)
(* cancels and finishes them, and reports substitutions, swaps and captain *)
(* replacements, some of them naming a player the guild does not know;     *)
(* the first member bets.                                                  *)
(***************************************************************************)
EventGames == 2

EventWagers == 1

EventOthers == {<<>>}

EventTeams == {<<<<1>>, <<2>>>>, <<<<1>>, <<2, NumMembers>>>>}

\* <<old, new>> of a substitution, the two players of a swap, <<new, old>> of
\* a captain replacement; NumMembers + 1 is a nick of no member.
EventSubs == {<<2, NumMembers>>, <<2, NumMembers + 1>>}

EventSwaps == {<<1, 2>>, <<1, NumMembers + 1>>}

EventCaptains == {<<NumMembers, 2>>, <<NumMembers + 1, 2>>}

InitEvents ==
    /\ now = 0
    /\ awaiting = EmptyBag
    /\ LET d == cmd_shazbucks(Registered(1), NumMembers).db
       IN  /\ users = d.users
           /\ transfers = d.transfers
           /\ games = d.games
           /\ wagers = d.wagers
           /\ trueskills = d.trueskills

EventBegun ==
    \E queue \in PugQueues, others \in EventOthers :
        /\ Len(games) < EventGames
        /\ Handle(game_begun(DB, queue, 1, 2, others))

EventPicked ==
    \E queue \in PugQueues, teams \in EventTeams :
        LET res == game_picked(DB, queue, teams[1], teams[2])
        IN  /\ Len(res.db.games) <= EventGames
            /\ Handle(res)

EventCancelled == Handle(game_cancelled(DB))

EventFinished ==
    \E queue \in PugQueues, winner \in {0} \cup Members :
        Handle(game_finished(DB, queue, winner))

EventBet ==
    \E winner \in Sides(2), amount \in 1..MaxAmount, game_id \in 0..Len(games) :
        LET res == cmd_bet(DB, 1, winner, amount, game_id)
        IN  /\ Len(res.db.wagers) <= EventWagers
            /\ Handle(res)

EventSub == \E pair \in EventSubs : Handle(sub_player_message(DB, pair[1], pair[2]))

EventSwap == \E pair \in EventSwaps : Handle(swap_player_message(DB, pair[1], pair[2]))

EventCaptain == \E pair \in EventCaptains : Handle(replaced_captain(DB, pair[1], pair[2]))

NextEvents ==
    \/ EventBegun
    \/ EventPicked
    \/ EventCancelled
    \/ EventFinished
    \/ EventBet
    \/ EventSub
    \/ EventSwap
    \/ EventCaptain

SpecEvents == InitEvents /\ [][NextEvents]_vars

(***************************************************************************)
(* A roster-change refund next to bets.  cancel_wagers reads the wagers of *)
(* the match once, then refunds them one by one and awaits send_dm after   *)
(* each; while it is suspended the event loop runs other handlers.  Every  *)
(* member has an account and may have bet on the one matchmaking match,    *)
(* whose second captain is substituted back and forth.                     *)
(***************************************************************************)
RefundWagers == 3

\* The rows cancel_wagers fetched: wagers.id, user_id, amount.
cancel_wagers_select(d, game_id) ==
    LET ids == InProgressWagers(d, game_id)
    IN  [k \in 1..Len(ids) |-> [wager_id |-> ids[k],
                                user_id |-> d.wagers[ids[k]].user_id,
                                amount |-> d.wagers[ids[k]].amount]]

\* One pass of the loop of cancel_wagers, up to its await send_dm.
cancel_wagers_iteration(d, row) ==
    wager_result(create_transfer(d, DISCORD_ID, row.user_id, Shazbucks(row.amount)),
                 row.wager_id, WagerResult_CANCELLED)

\* sub_player up to the first await of cancel_wagers; rows are the fetched
\* wagers the loop has still to refund.
sub_player_begin(d, old_player, new_player) ==
    LET ids == RosterCandidates(d, old_player,
                                {GameStatus_PICKING, GameStatus_INPROGRESS})
        game_id == ids[Len(ids)]
        g == d.games[game_id]
        updated == IF InTeam(old_player, g.team1)
                   THEN update_teams(d, game_id, Replace(g.team1, old_player, new_player),
                                     g.team2)
                   ELSE update_teams(d, game_id, g.team1,
                                     Replace(g.team2, old_player, new_player))
        rows == cancel_wagers_select(updated, game_id)
    IN  IF ids = <<>> THEN [db |-> d, rows |-> <<>>]
        ELSE IF g.status = GameStatus_INPROGRESS /\ rows # <<>>
        THEN [db |-> cancel_wagers_iteration(updated, Head(rows)), rows |-> Tail(rows)]
        ELSE [db |-> updated, rows |-> <<>>]

RefundBets == {<<>>} \cup (Sides(1) \X {1} \X {1})

\* The members who go on betting while the refund runs.
RefundBettors == {NumMembers}

RefundSubs == {<<2, NumMembers>>, <<NumMembers, 2>>}

RefundFrames == {f \in BagToSet(awaiting) : "rows" \in DOMAIN f}

BetFrames == {f \in BagToSet(awaiting) : "target" \in DOMAIN f}

InitRefund ==
    /\ now = 0
    /\ awaiting = EmptyBag
    /\ \E bets \in [Members -> RefundBets] :
        LET d == Placed(game_picked(Registered(NumMembers), "NA", <<1>>, <<2>>).db,
                        bets, NumMembers)
        IN  /\ users = d.users
            /\ transfers = d.transfers
            /\ games = d.games
            /\ wagers = d.wagers
            /\ trueskills = d.trueskills

\* A substitution arrives while no refund is under way.
RefundSub ==
    \E pair \in RefundSubs :
        LET begun == sub_player_begin(DB, pair[1], pair[2])
        IN  /\ RefundFrames = {}
            /\ Store(begun.db)
            /\ awaiting' = IF begun.rows = <<>> THEN awaiting
                           ELSE awaiting (+) SetToBag({[rows |-> begun.rows]})
            /\ UNCHANGED now

\* send_dm returns and the loop of cancel_wagers takes its next row.
RefundResume ==
    \E frame \in RefundFrames :
        /\ Store(cancel_wagers_iteration(DB, Head(frame.rows)))
        /\ awaiting' = (awaiting (-) SetToBag({frame}))
                       (+) (IF Tail(frame.rows) = <<>> THEN EmptyBag
                            ELSE SetToBag({[rows |-> Tail(frame.rows)]}))
        /\ UNCHANGED now

RefundBetBegin ==
    \E m \in RefundBettors, winner \in Sides(2), amount \in 1..MaxAmount :
        LET begun == cmd_bet_begin(DB, m, winner, amount, 0)
        IN  /\ begun.accepted
            /\ BetFrames = {}
            /\ Len(wagers) <= RefundWagers
            /\ awaiting' = awaiting (+) SetToBag({begun.frame})
            /\ UNCHANGED <<users, transfers, games, wagers, trueskills, now>>

RefundBetResume ==
    \E frame \in BetFrames :
        /\ Len(cmd_bet_resume(DB, frame).db.wagers) <= RefundWagers
        /\ Store(cmd_bet_resume(DB, frame).db)
        /\ awaiting' = awaiting (-) SetToBag({frame})
        /\ UNCHANGED now

NextRefund ==
    \/ RefundSub
    \/ RefundResume
    \/ RefundBetBegin
    \/ RefundBetResume

SpecRefund == InitRefund /\ [][NextRefund]_vars

(***************************************************************************)
(* Two ledger commands of one user.  cmd_bet checks the balance, awaits    *)
(* the captain-nick lookup and debits afterwards; cmd_gift checks and      *)
(* debits without an await in between.  The first member bets on the       *)
(* matchmaking match and gives to the second member.                       *)
(***************************************************************************)
SpendBegin ==
    \E winner \in Sides(2), amount \in 1..MaxStake :
        LET begun == cmd_bet_begin(DB, 1, winner, amount, 0)
        IN  /\ begun.accepted
            /\ bet_awaits(DB, winner, 0)
            /\ BagCardinality(awaiting) < MaxAwaiting
            /\ awaiting' = awaiting (+) SetToBag({begun.frame})
            /\ UNCHANGED <<users, transfers, games, wagers, trueskills, now>>

SpendGift ==
    \E pair \in GiftPairs, amount \in 1..MaxStake :
        Handle(cmd_gift(DB, pair[1], pair[2], amount))

NextSpend ==
    \/ SpendBegin
    \/ BetResume
    \/ SpendGift

SpecSpend == InitBet /\ [][NextSpend]_vars

(***************************************************************************)
(* A settlement next to a result correction.  resolve_wagers reads the     *)
(* InProgress wagers of the match once, computes the totals, then resolves *)
(* the wagers one by one and awaits send_dm after each; while it is        *)
(* suspended an admin corrects the result of the same match.  Every member *)
(* has an account and may hold a wager of one shazbuck on either side of   *)
(* the one custom match.  No bet is placed meanwhile, so the prediction    *)
(* and amount of a fetched row are those of the table.                     *)
(***************************************************************************)
\* cmd_end_game up to the first await send_dm of resolve_wagers; ids are the
\* fetched wagers the loop has still to resolve.
cmd_end_game_begin(d, discord_id, game_id, result) ==
    LET g == d.games[game_id]
        status == result_status(result, capt_nick(g.team1), capt_nick(g.team2))
        finished == finish_game(d, game_id, status)
        ids == InProgressWagers(finished, game_id)
        total == total_amount(finished, ids)
        winning_total == IF status \in Outcomes THEN TotalAmount(finished, ids, status)
                         ELSE 0
    IN  IF discord_id \notin DOMAIN d.users THEN [db |-> d, ids |-> <<>>]
        ELSE IF ~(game_id \in 1..Len(d.games)
                  /\ d.games[game_id].status = GameStatus_INPROGRESS)
        THEN [db |-> d, ids |-> <<>>]
        ELSE IF d.games[game_id].queue \in PugQueues THEN [db |-> d, ids |-> <<>>]
        ELSE IF status = 0 THEN [db |-> d, ids |-> <<>>]
        ELSE IF ids = <<>> \/ PredictionRaises(finished, ids)
        THEN [db |-> finished, ids |-> <<>>]
        ELSE [db |-> resolve_one(finished, Head(ids), status, total, winning_total),
              ids |-> Tail(ids), game_result |-> status, total |-> total,
              winning_total |-> winning_total]

OverlapBets == {<<>>} \cup (Sides(2) \X {1} \X {1})

OverlapResults == Sides(4)

OverlapPool(bets) == Placed(Started(Registered(NumMembers), 1), bets, NumMembers)

SettleFrames == {f \in BagToSet(awaiting) : "game_result" \in DOMAIN f}

InitOverlap ==
    /\ now = 0
    /\ awaiting = EmptyBag
    /\ \E bets \in [Members -> OverlapBets] :
        /\ users = OverlapPool(bets).users
        /\ transfers = OverlapPool(bets).transfers
        /\ games = OverlapPool(bets).games
        /\ wagers = OverlapPool(bets).wagers
        /\ trueskills = OverlapPool(bets).trueskills

OverlapEnd ==
    \E m \in Admins, result \in OverlapResults :
        LET begun == cmd_end_game_begin(DB, m, 1, result)
        IN  /\ Store(begun.db)
            /\ awaiting' = IF begun.ids = <<>> THEN awaiting
                           ELSE awaiting (+) SetToBag({[ids |-> begun.ids,
                                                        game_result |-> begun.game_result,
                                                        total |-> begun.total,
                                                        winning_total |-> begun.winning_total]})
            /\ UNCHANGED now

\* send_dm returns and the loop of resolve_wagers takes its next row.
OverlapResume ==
    \E frame \in SettleFrames :
        /\ Store(resolve_one(DB, Head(frame.ids), frame.game_result, frame.total,
                             frame.winning_total))
        /\ awaiting' = (awaiting (-) SetToBag({frame}))
                       (+) (IF Tail(frame.ids) = <<>> THEN EmptyBag
                            ELSE SetToBag({[frame EXCEPT !.ids = Tail(@)]}))
        /\ UNCHANGED now

OverlapChange ==
    \E m \in Admins, result \in OverlapResults :
        Handle(cmd_change_game(DB, m, 1, result))

NextOverlap ==
    \/ OverlapEnd
    \/ OverlapResume
    \/ OverlapChange

SpecOverlap == InitOverlap /\ [][NextOverlap]_vars

(***************************************************************************)
(* Direct messages.  send_dm either delivers the message, or Discord       *)
(* refuses it (discord.Forbidden, which send_dm catches and logs), or the  *)
(* request fails otherwise (any other discord.HTTPException from           *)
(* fetch_member, create_dm or send, which nothing catches).  A delivered   *)
(* message records the wagers table and the transfers the handler had      *)
(* committed when it was sent.                                             *)
(***************************************************************************)
DmOutcomes == {"sent", "forbidden", "raised"}

\* One outcome for each message a loop may send: at most one message is not
\* delivered.
DmRuns ==
    {[k \in 1..NumMembers |-> IF k = at THEN outcome ELSE "sent"] :
         at \in 1..NumMembers, outcome \in DmOutcomes}

AllSent == [k \in 1..NumMembers |-> "sent"]

\* The transfer row a step inserted, <<>> when it inserted none.
NewRow(before, after) ==
    LET delta == after.inserted (-) before.inserted
    IN  IF delta = EmptyBag THEN <<>> ELSE CHOOSE row \in BagToSet(delta) : TRUE

\* What a message tells its reader: the wager (0 for none) with the result
\* written for it, and the transfer (<<>> for none).
Report(user_id, wager_id, result, row) ==
    [user_id |-> user_id, wager_id |-> wager_id, result |-> result, row |-> row]

send_dm(out, seen, report, outcome) ==
    IF outcome = "sent"
    THEN Append(out, [report |-> report,
                      seen |-> [wagers |-> seen.wagers, inserted |-> seen.inserted]])
    ELSE out

\* Variant: the message goes out before the transfer and the result are written.
resolve_one_dm_first(d, out, wager_id, game_result, total, winning_total, outcome) ==
    LET committed == resolve_one(d, wager_id, game_result, total, winning_total)
    IN  [db |-> committed,
         out |-> send_dm(out, d,
                         Report(d.wagers[wager_id].user_id, wager_id,
                                committed.wagers[wager_id].result, NewRow(d, committed)),
                         outcome)]

\* One iteration of the loop of resolve_wagers with its send_dm.
resolve_one_dm(d, out, wager_id, game_result, total, winning_total, outcome) ==
    LET committed == resolve_one(d, wager_id, game_result, total, winning_total)
    IN  [db |-> committed,
         out |-> send_dm(out, committed,
                         Report(d.wagers[wager_id].user_id, wager_id,
                                committed.wagers[wager_id].result, NewRow(d, committed)),
                         outcome)]

RECURSIVE resolve_loop_dm(_, _, _, _, _, _, _)
resolve_loop_dm(d, out, ids, game_result, total, winning_total, dms) ==
    IF ids = <<>> THEN [db |-> d, out |-> out, raised |-> FALSE]
    ELSE LET step == resolve_one_dm(d, out, Head(ids), game_result, total,
                                    winning_total, Head(dms))
         IN  IF Head(dms) = "raised"
             THEN [db |-> step.db, out |-> step.out, raised |-> TRUE]
             ELSE resolve_loop_dm(step.db, step.out, Tail(ids), game_result, total,
                                  winning_total, Tail(dms))

resolve_wagers_dm(d, out, game_id, game_result, dms) ==
    LET ids == InProgressWagers(d, game_id)
    IN  IF PredictionRaises(d, ids)
        THEN [db |-> d, out |-> out, raised |-> TRUE]
        ELSE resolve_loop_dm(d, out, ids, game_result, total_amount(d, ids),
                             IF game_result \in Outcomes
                             THEN TotalAmount(d, ids, game_result) ELSE 0,
                             dms)

RECURSIVE cancel_loop_dm(_, _, _, _)
cancel_loop_dm(d, out, ids, dms) ==
    IF ids = <<>> THEN [db |-> d, out |-> out, raised |-> FALSE]
    ELSE LET w == d.wagers[Head(ids)]
             committed == wager_result(create_transfer(d, DISCORD_ID, w.user_id,
                                                       Shazbucks(w.amount)),
                                       Head(ids), WagerResult_CANCELLED)
             sent == send_dm(out, committed,
                             Report(w.user_id, Head(ids), WagerResult_CANCELLED,
                                    <<DISCORD_ID, w.user_id, Shazbucks(w.amount)>>),
                             Head(dms))
         IN  IF Head(dms) = "raised"
             THEN [db |-> committed, out |-> sent, raised |-> TRUE]
             ELSE cancel_loop_dm(committed, sent, Tail(ids), Tail(dms))

cancel_wagers_dm(d, game_id, dms) ==
    cancel_loop_dm(d, <<>>, InProgressWagers(d, game_id), dms)

\* pay_players with its send_dm: the reward is transferred, then announced.
RECURSIVE pay_team_dm(_, _, _, _, _)
pay_team_dm(d, out, team, captain, dms) ==
    IF team = <<>> THEN [db |-> d, out |-> out, raised |-> FALSE]
    ELSE IF Head(team) \in DOMAIN d.users
    THEN LET reward == Shazbucks(IF captain THEN BUCKS_PER_PUG * 2 ELSE BUCKS_PER_PUG)
             committed == create_transfer(d, DISCORD_ID, Head(team), reward)
             sent == send_dm(out, committed,
                             Report(Head(team), 0, 0, <<DISCORD_ID, Head(team), reward>>),
                             Head(dms))
         IN  IF Head(dms) = "raised"
             THEN [db |-> committed, out |-> sent, raised |-> TRUE]
             ELSE pay_team_dm(committed, sent, Tail(team), FALSE, Tail(dms))
    ELSE pay_team_dm(d, out, Tail(team), captain, dms)

pay_players_dm(d, out, team1, team2, dms) ==
    LET first == pay_team_dm(d, out, team1, TRUE, dms)
    IN  IF first.raised THEN first
        ELSE pay_team_dm(first.db, first.out, team2, TRUE, dms)

\* One iteration of the claw-back loop of cmd_change_game with its send_dm.
RECURSIVE clawback_loop_dm(_, _, _, _, _, _, _)
clawback_loop_dm(d, out, ids, old_status, total, winning_total, dms) ==
    IF ids = <<>> THEN [db |-> d, out |-> out, raised |-> FALSE]
    ELSE LET w == d.wagers[Head(ids)]
             committed == clawback_one(d, Head(ids), old_status, total, winning_total)
             sent == send_dm(out, committed,
                             Report(w.user_id, Head(ids), WagerResult_INPROGRESS,
                                    NewRow(d, committed)),
                             Head(dms))
         IN  IF Head(dms) = "raised"
             THEN [db |-> committed, out |-> sent, raised |-> TRUE]
             ELSE clawback_loop_dm(committed, sent, Tail(ids), old_status, total,
                                   winning_total, Tail(dms))

clawback_dm(d, game_id, old_status, dms) ==
    LET ids == ChangeWagers(d, game_id)
    IN  clawback_loop_dm(finish_game(d, game_id, GameStatus_INPROGRESS), <<>>, ids,
                         old_status, total_amount(d, ids),
                         IF old_status \in Outcomes THEN TotalAmount(d, ids, old_status)
                         ELSE 0,
                         dms)

cmd_gift_dm(d, discord_id, receiver, amount, dms) ==
    LET res == cmd_gift(d, discord_id, receiver, amount)
        row == <<discord_id, receiver, Shazbucks(amount)>>
        first == send_dm(<<>>, res.db, Report(discord_id, 0, 0, row), dms[1])
    IN  IF ~res.success THEN [db |-> d, out |-> <<>>, success |-> FALSE]
        ELSE IF dms[1] = "raised" THEN [db |-> res.db, out |-> first, success |-> FALSE]
        ELSE [db |-> res.db,
              out |-> send_dm(first, res.db, Report(receiver, 0, 0, row), dms[2]),
              success |-> dms[2] # "raised"]

cmd_bet_dm(d, discord_id, winner, amount, game_id, dms) ==
    LET res == cmd_bet(d, discord_id, winner, amount, game_id)
        changed == {i \in 1..Len(res.db.wagers) :
                        i > Len(d.wagers) \/ res.db.wagers[i] # d.wagers[i]}
        wager_id == CHOOSE i \in changed : TRUE
    IN  IF ~res.success THEN [db |-> d, out |-> <<>>, success |-> FALSE]
        ELSE [db |-> res.db,
              out |-> send_dm(<<>>, res.db,
                              Report(discord_id, wager_id, WagerResult_INPROGRESS,
                                     <<discord_id, DISCORD_ID, Shazbucks(amount)>>),
                              dms[1]),
              success |-> dms[1] # "raised"]

cmd_end_game_dm(d, discord_id, game_id, result, dms) ==
    IF discord_id \notin DOMAIN d.users THEN [db |-> d, out |-> <<>>, success |-> FALSE]
    ELSE IF ~(game_id \in 1..Len(d.games)
              /\ d.games[game_id].status = GameStatus_INPROGRESS)
    THEN [db |-> d, out |-> <<>>, success |-> FALSE]
    ELSE IF d.games[game_id].queue \in PugQueues
    THEN [db |-> d, out |-> <<>>, success |-> FALSE]
    ELSE LET g == d.games[game_id]
             status == result_status(result, capt_nick(g.team1), capt_nick(g.team2))
             r == resolve_wagers_dm(finish_game(d, game_id, status), <<>>, game_id,
                                    status, dms)
         IN  IF status = 0 THEN [db |-> d, out |-> <<>>, success |-> FALSE]
             ELSE [db |-> r.db, out |-> r.out, success |-> ~r.raised]

cmd_change_game_dm(d, discord_id, game_id, result, dms) ==
    IF discord_id \notin DOMAIN d.users THEN [db |-> d, out |-> <<>>, success |-> FALSE]
    ELSE IF ~(game_id \in 1..Len(d.games) /\ d.games[game_id].status \in ChangeableStatus)
    THEN [db |-> d, out |-> <<>>, success |-> FALSE]
    ELSE LET g == d.games[game_id]
             old_status == g.status
             new_status == result_status(result, capt_nick(g.team1), capt_nick(g.team2))
             clawed == IF old_status # GameStatus_INPROGRESS
                       THEN clawback_dm(d, game_id, old_status, dms)
                       ELSE [db |-> d, out |-> <<>>, raised |-> FALSE]
             r == resolve_wagers_dm(finish_game(clawed.db, game_id, new_status),
                                    clawed.out, game_id, new_status, dms)
         IN  IF new_status = 0 THEN [db |-> d, out |-> <<>>, success |-> FALSE]
             ELSE IF new_status = old_status THEN [db |-> d, out |-> <<>>, success |-> FALSE]
             ELSE IF old_status = GameStatus_CANCELLED
             THEN [db |-> d, out |-> <<>>, success |-> FALSE]
             ELSE IF PredictionRaises(d, ChangeWagers(d, game_id))
             THEN [db |-> d, out |-> <<>>, success |-> FALSE]
             ELSE IF clawed.raised
             THEN [db |-> clawed.db, out |-> clawed.out, success |-> FALSE]
             ELSE [db |-> r.db, out |-> r.out, success |-> ~r.raised]

game_finished_dm(d, queue, winner, dms) ==
    LET ids == FinishCandidates(d, queue, winner)
        game_id == FinishChoice(d, ids)
        g == d.games[game_id]
        game_result == IF winner = 0 THEN GameStatus_TIED
                       ELSE IF winner = capt_nick(g.team1) THEN GameStatus_TEAM1
                       ELSE IF winner = capt_nick(g.team2) THEN GameStatus_TEAM2
                       ELSE 0
        r == resolve_wagers_dm(finish_game(d, game_id, game_result), <<>>, game_id,
                               game_result, dms)
        paid == pay_players_dm(r.db, r.out, g.team1, g.team2, dms)
    IN  IF ids = <<>> THEN [db |-> d, out |-> <<>>, success |-> FALSE]
        ELSE IF game_result = 0 THEN [db |-> d, out |-> <<>>, success |-> FALSE]
        ELSE IF r.raised THEN [db |-> r.db, out |-> r.out, success |-> FALSE]
        ELSE IF paid.raised THEN [db |-> paid.db, out |-> paid.out, success |-> FALSE]
        ELSE [db |-> update_trueskills(paid.db, game_id, g.team1, g.team2, game_result),
              out |-> paid.out, success |-> TRUE]

sub_player_dm(d, old_player, new_player, dms) ==
    LET ids == RosterCandidates(d, old_player,
                                {GameStatus_PICKING, GameStatus_INPROGRESS})
        game_id == ids[Len(ids)]
        g == d.games[game_id]
        updated == IF InTeam(old_player, g.team1)
                   THEN update_teams(d, game_id, Replace(g.team1, old_player, new_player),
                                     g.team2)
                   ELSE update_teams(d, game_id, g.team1,
                                     Replace(g.team2, old_player, new_player))
        r == cancel_wagers_dm(updated, game_id, dms)
    IN  IF ids = <<>> THEN [db |-> d, out |-> <<>>, success |-> FALSE]
        ELSE IF g.status = GameStatus_INPROGRESS
        THEN [db |-> r.db, out |-> r.out, success |-> ~r.raised]
        ELSE [db |-> updated, out |-> <<>>, success |-> TRUE]

\* The database after every member has opened an account, the teams of a
\* matchmaking game were picked, an admin has started a custom game and every
\* member has placed at most one bet.
\* A member's bet in such a pool: none, or a bet of one shazbuck on a side of
\* either game.
NotifyBets == {<<>>} \cup (Sides(3) \X {MaxAmount} \X (1..PoolGames))

NotifyPool(bets) ==
    Placed(Started(game_picked(Registered(NumMembers), "NA", <<1>>, <<2>>).db, 1),
           bets, NumMembers)

InitNotify ==
    /\ now = 0
    /\ awaiting = EmptyBag
    /\ \E bets \in [Members -> NotifyBets] :
        /\ users = NotifyPool(bets).users
        /\ transfers = NotifyPool(bets).transfers
        /\ games = NotifyPool(bets).games
        /\ wagers = NotifyPool(bets).wagers
        /\ trueskills = NotifyPool(bets).trueskills

NotifyEnd ==
    \E m \in Admins, game_id \in 1..Len(games), result \in Results, dms \in DmRuns :
        Handle(cmd_end_game_dm(DB, m, game_id, result, dms))

NotifySub ==
    \E sub \in Subs, dms \in DmRuns : Handle(sub_player_dm(DB, sub[1], sub[2], dms))

NextNotify ==
    \/ NotifyEnd
    \/ NotifySub

SpecNotify == InitNotify /\ [][NextNotify]_vars

(***************************************************************************)
(* Properties.                                                             *)
(***************************************************************************)
RECURSIVE SumOver(_, _)
SumOver(f, S) ==
    IF S = {} THEN 0
    ELSE LET x == CHOOSE y \in S : TRUE IN f[x] + SumOver(f, S \ {x})

TotalBalance(d) == SumOver(d.users, DOMAIN d.users)

HasResult(result) == \E i \in 1..Len(wagers) : wagers[i].result = result

\* C1: conservation. After any sequence of registrations, gifts, bets,
\* amendments, roster-change refunds, settlements, participation rewards and
\* result corrections, the balances of all users, House included, add up to
\* what they added up to initially (zero: House starts with nothing).
C1_Conservation == TotalBalance(DB) = 0

\* A match settled with a winner and a loser, after two registrations and two bets.
C1_Witness ==
    /\ TotalBalance(DB) = 0
    /\ HasResult(WagerResult_WON) /\ HasResult(WagerResult_LOST)
    /\ users[DISCORD_ID] < 0

\* C2: every user's balance is the balance the user was created with (zero)
\* plus the amounts of the recorded transfers received minus the amounts of
\* the recorded transfers sent; no operation moves a balance without a row.
C2_BalanceIsLedger ==
    /\ DOMAIN transfers = DOMAIN users
    /\ \A u \in DOMAIN users : users[u] = 0 + transfers[u]

\* A member who was granted the initial balance, staked, and was paid a win.
C2_Witness ==
    \E i \in 1..Len(wagers) :
        /\ wagers[i].result = WagerResult_WON
        /\ users[wagers[i].user_id] > Shazbucks(INIT_BAL)
        /\ users[wagers[i].user_id] = transfers[wagers[i].user_id]

\* What follows states the settlement claims on the commands themselves: in
\* every reachable state, for every match and every result word the admin may
\* type, the database the command leaves (res.db) and the rows it inserted
\* (res.db.inserted) are compared with the database it found (DB).
AllResults == Sides(4) \cup Nicks

ResultWord(status) ==
    CASE status = GameStatus_TEAM1 -> <<"side", 1>>
      [] status = GameStatus_TEAM2 -> <<"side", 2>>
      [] status = GameStatus_TIED -> <<"side", 3>>
      [] OTHER -> <<"side", 4>>

IsOpen(game_id) == games[game_id].status = GameStatus_INPROGRESS

\* Settling an InProgress match: !end_game, or !change_game on it.
Settlements(m, game_id, status) ==
    {cmd_end_game(DB, m, game_id, ResultWord(status)),
     cmd_change_game(DB, m, game_id, ResultWord(status))}

Staked(d, ids) == SeqSum([k \in 1..Len(ids) |-> d.wagers[ids[k]].amount])

\* The number of transfer rows the handler inserted that name the user.
InsertedFor(d, user_id) ==
    LET rows == {r \in BagToSet(d.inserted) : r[1] = user_id \/ r[2] = user_id}
    IN  SumOver([r \in rows |-> CopiesIn(r, d.inserted)], rows)

\* Exactly one row was inserted for the user: House pays the user the amount.
PaidOnce(d, user_id, units) ==
    /\ InsertedFor(d, user_id) = 1
    /\ CopiesIn(<<DISCORD_ID, user_id, units>>, d.inserted) = 1

Refunded(res, wager_id, result) ==
    LET w == wagers[wager_id]
    IN  /\ res.db.wagers[wager_id].result = result
        /\ PaidOnce(res.db, w.user_id, Shazbucks(w.amount))
        /\ res.db.users[w.user_id] = users[w.user_id] + Shazbucks(w.amount)

Tables(d) == <<d.users, d.transfers, d.games, d.wagers>>

Refused(res) == res.db = DB /\ ~res.success

\* C3: pari-mutuel payout. When a match is settled to Team1 or Team2 and its
\* InProgress wagers include stakes on the winning outcome and on another
\* outcome, every wager on the winning outcome is marked Won and gets exactly
\* one House-to-bettor transfer of round(amount * total staked / total staked
\* on the winner); every other wager is marked Lost and gets no transfer.
C3_PariMutuelPayout ==
    \A game_id \in 1..Len(games), status \in {GameStatus_TEAM1, GameStatus_TEAM2},
       m \in Admins :
        LET ids == InProgressWagers(DB, game_id)
            on_winner == TotalAmount(DB, ids, status)
        IN  (/\ IsOpen(game_id)
             /\ on_winner > 0
             /\ \E k \in 1..Len(ids) : wagers[ids[k]].prediction \in Outcomes \ {status})
            => \A res \in Settlements(m, game_id, status), k \in 1..Len(ids) :
                   LET w == wagers[ids[k]]
                   IN  IF w.prediction = status
                       THEN /\ res.db.wagers[ids[k]].result = WagerResult_WON
                            /\ PaidOnce(res.db, w.user_id,
                                        Shazbucks(PyRound(w.amount * Staked(DB, ids),
                                                          on_winner)))
                       ELSE /\ res.db.wagers[ids[k]].result = WagerResult_LOST
                            /\ InsertedFor(res.db, w.user_id) = 0

\* C4: one-sided market refund. If every InProgress wager on a match predicts
\* the same outcome and the match is settled to that outcome, every wager is
\* refunded exactly its stake by one House-to-bettor transfer and tagged
\* CancelledOneSided, so the bettor's balance is what it was before the bet.
C4_OneSidedRefund ==
    \A game_id \in 1..Len(games), status \in Outcomes, m \in Admins :
        LET ids == InProgressWagers(DB, game_id)
        IN  (/\ IsOpen(game_id)
             /\ ids # <<>>
             /\ \A k \in 1..Len(ids) : wagers[ids[k]].prediction = status)
            => \A res \in Settlements(m, game_id, status), k \in 1..Len(ids) :
                   Refunded(res, ids[k], WagerResult_CANCELLEDONESIDED)

\* A match settled to the outcome both of its wagers predicted, the two stakes back.
C4_Witness ==
    \E game_id \in 1..Len(games) :
        /\ games[game_id].status \in Outcomes
        /\ \E i, j \in 1..Len(wagers) :
            /\ i # j
            /\ wagers[i].game_id = game_id /\ wagers[j].game_id = game_id
            /\ wagers[i].prediction = games[game_id].status
            /\ wagers[j].prediction = games[game_id].status
            /\ wagers[i].result = WagerResult_CANCELLEDONESIDED
            /\ wagers[j].result = WagerResult_CANCELLEDONESIDED
            /\ users[wagers[i].user_id] = Shazbucks(INIT_BAL)
            /\ users[wagers[j].user_id] = Shazbucks(INIT_BAL)

\* C5: no-winner refund. If a match is settled to Team1, Team2 or Tied and no
\* InProgress wager predicts that outcome, every InProgress wager on it is
\* refunded exactly its stake and tagged CancelledNoWinners.
C5_NoWinnerRefund ==
    \A game_id \in 1..Len(games), status \in Outcomes, m \in Admins :
        LET ids == InProgressWagers(DB, game_id)
        IN  (/\ IsOpen(game_id)
             /\ \A k \in 1..Len(ids) : wagers[ids[k]].prediction # status)
            => \A res \in Settlements(m, game_id, status), k \in 1..Len(ids) :
                   Refunded(res, ids[k], WagerResult_CANCELLEDNOWINNERS)

\* C6: cancellation refund. When an InProgress match is settled as Cancelled
\* (end-game or change-result), every InProgress wager on it is refunded
\* exactly its stake by one House-to-bettor transfer and marked Cancelled,
\* whatever the predictions.
C6_CancellationRefund ==
    \A game_id \in 1..Len(games), m \in Admins :
        LET ids == InProgressWagers(DB, game_id)
        IN  IsOpen(game_id)
            => \A res \in Settlements(m, game_id, GameStatus_CANCELLED), k \in 1..Len(ids) :
                   /\ res.db.games[game_id].status = GameStatus_CANCELLED
                   /\ Refunded(res, ids[k], WagerResult_CANCELLED)

\* C7: round-trip clawback. For every set of wagers on a match and distinct
\* results A, B among Team1, Team2, Tied, settling to A and then changing the
\* result to B leaves every balance, House included, and the match status as
\* settling the InProgress match directly to B does.
C7_RoundTrip ==
    \A game_id \in 1..Len(games), A \in Outcomes, B \in Outcomes, m \in Admins :
        (IsOpen(game_id) /\ A # B)
        => LET settled == cmd_end_game(DB, m, game_id, ResultWord(A)).db
               changed == cmd_change_game(settled, m, game_id, ResultWord(B)).db
               direct == cmd_end_game(DB, m, game_id, ResultWord(B)).db
           IN  /\ changed.users = direct.users
               /\ changed.games[game_id].status = direct.games[game_id].status

\* C8: correction idempotence. A change-result whose new result is the match's
\* current status is refused: no transfer, no balance, no wager result and no
\* match status changes; so changing to X twice leaves what changing once does.
C8_SameResultRefused ==
    \A game_id \in 1..Len(games), result \in AllResults, m \in Admins :
        LET g == games[game_id]
            once == cmd_change_game(DB, m, game_id, result).db
            twice == cmd_change_game(once, m, game_id, result).db
        IN  /\ result_status(result, capt_nick(g.team1), capt_nick(g.team2)) = g.status
               => Refused(cmd_change_game(DB, m, game_id, result))
            /\ Tables(twice) = Tables(once)

\* A match settled with a winner who was paid: a second settlement would pay again.
C8_Witness ==
    \E i \in 1..Len(wagers) :
        /\ wagers[i].result = WagerResult_WON
        /\ games[wagers[i].game_id].status = wagers[i].prediction
        /\ users[wagers[i].user_id] > Shazbucks(INIT_BAL)

\* C9: a change-result on a match whose status is Cancelled is refused for
\* every new result: the match stays Cancelled and no transfer, balance or
\* wager result changes.
C9_CancelledStaysCancelled ==
    \A game_id \in 1..Len(games), result \in AllResults, m \in Admins :
        games[game_id].status = GameStatus_CANCELLED
        => Refused(cmd_change_game(DB, m, game_id, result))

\* A cancelled match with wagers on both sides, both refunded.
C9_Witness ==
    \E i, j \in 1..Len(wagers) :
        /\ wagers[i].game_id = wagers[j].game_id
        /\ games[wagers[i].game_id].status = GameStatus_CANCELLED
        /\ wagers[i].prediction # wagers[j].prediction
        /\ wagers[i].result = WagerResult_CANCELLED
        /\ wagers[j].result = WagerResult_CANCELLED

\* The bet claims are stated on cmd_bet itself: in every reachable state, for
\* every member, prediction token, amount and game id a !bet may carry.
\* The outcome a token names in a match: a side, or a captain by name; 0 if none.
Predicts(g, winner) ==
    IF winner[1] = "side"
    THEN CASE winner[2] = 1 -> GameStatus_TEAM1
           [] winner[2] = 2 -> GameStatus_TEAM2
           [] OTHER -> GameStatus_TIED
    ELSE IF winner[2] = Head(g.team1) THEN GameStatus_TEAM1
    ELSE IF winner[2] = Head(g.team2) THEN GameStatus_TEAM2
    ELSE 0

OpenGames == {g \in 1..Len(games) : IsOpen(g)}

\* The InProgress matches a bet is on: the match of the id given; without an
\* id, the latest match for a side and the matches of the captain for a name.
BetOn(winner, game_id) ==
    IF game_id # 0
    THEN {g \in OpenGames : g = game_id /\ Predicts(games[g], winner) # 0}
    ELSE IF winner[1] = "side"
    THEN {g \in OpenGames : \A h \in OpenGames : h <= g}
    ELSE {g \in OpenGames : Predicts(games[g], winner) # 0}

Held(m, g) ==
    {i \in 1..Len(wagers) : /\ wagers[i].user_id = m
                            /\ wagers[i].game_id = g
                            /\ wagers[i].result = WagerResult_INPROGRESS}

ValidStake(m, amount) ==
    m \in DOMAIN users /\ amount >= 1 /\ Shazbucks(amount) <= users[m]

Elapsed(g) == now - games[g].pick_time

\* C11: self-contradiction guard. A bet by a user who holds an InProgress
\* wager on the same match with a different prediction is rejected: no wager
\* row, no wager amount, no transfer and no balance changes.
C11_NoHedging ==
    \A m \in Members, winner \in PlaceWinners, amount \in PlaceAmounts,
       game_id \in 0..Len(games), g \in 1..Len(games) :
        (/\ BetOn(winner, game_id) = {g}
         /\ \E i \in Held(m, g) : wagers[i].prediction # Predicts(games[g], winner))
        => Refused(cmd_bet(DB, m, winner, amount, game_id))

\* A member holds a wager on an open match, has funds left and the window is open.
C11_Witness ==
    \E g \in OpenGames, i \in 1..Len(wagers) :
        /\ i \in Held(wagers[i].user_id, g)
        /\ wagers[i].prediction = GameStatus_TEAM1
        /\ users[wagers[i].user_id] >= Shazbucks(1)
        /\ Elapsed(g) <= games[g].bet_window
        /\ OpenGames = {g}

C13_WindowBoundary ==
    \A m \in Members, winner \in PlaceWinners, amount \in PlaceAmounts,
       game_id \in 0..Len(games), g \in 1..Len(games) :
        LET res == cmd_bet(DB, m, winner, amount, game_id)
        IN  (/\ BetOn(winner, game_id) = {g}
             /\ ValidStake(m, amount)
             /\ \A i \in Held(m, g) : wagers[i].prediction = Predicts(games[g], winner))
            => /\ Elapsed(g) = games[g].bet_window => res.success
               /\ Elapsed(g) > games[g].bet_window => Refused(res)

\* C14: stake validation. A bet whose amount is zero, negative or greater than
\* the bettor's balance, or that comes from a user without an account, is
\* rejected and mutates no state.
C14_StakeValidation ==
    \A m \in Members, winner \in PlaceWinners, amount \in PlaceAmounts,
       game_id \in 0..Len(games) :
        ~ValidStake(m, amount) => Refused(cmd_bet(DB, m, winner, amount, game_id))

\* An open match within its window, a member whose stake of 1 is accepted, and
\* a member without an account: only the stake decides.
C14_Witness ==
    \E g \in OpenGames :
        /\ Elapsed(g) <= games[g].bet_window
        /\ cmd_bet(DB, 1, <<"side", 1>>, 1, g).success
        /\ users[1] < Shazbucks(MaxStake + 1)
        /\ NumMembers \notin DOMAIN users

\* C15: escrow on placement. A successful first bet of amount a on a match
\* creates exactly one wager, InProgress and of amount a, on a match whose
\* status is InProgress, and exactly one transfer of a from the bettor to
\* House; a bet naming a match that is not InProgress creates nothing.
C15_EscrowOnPlacement ==
    \A m \in Members, winner \in PlaceWinners, amount \in PlaceAmounts,
       game_id \in 0..Len(games) :
        LET res == cmd_bet(DB, m, winner, amount, game_id)
            new == res.db.wagers[Len(wagers) + 1]
        IN  /\ (res.success /\ \A g \in BetOn(winner, game_id) : Held(m, g) = {})
               => /\ Len(res.db.wagers) = Len(wagers) + 1
                  /\ SubSeq(res.db.wagers, 1, Len(wagers)) = wagers
                  /\ new.user_id = m
                  /\ new.amount = amount
                  /\ new.result = WagerResult_INPROGRESS
                  /\ new.game_id \in BetOn(winner, game_id)
                  /\ res.db.games = games
                  /\ res.db.inserted = SetToBag({<<m, DISCORD_ID, Shazbucks(amount)>>})
                  /\ res.db.users[m] = users[m] - Shazbucks(amount)
            /\ (game_id # 0 /\ ~IsOpen(game_id)) => Refused(res)

\* A first wager stands on an open match, its stake with House.
C15_Witness ==
    \E i \in 1..Len(wagers) :
        /\ IsOpen(wagers[i].game_id)
        /\ Held(wagers[i].user_id, wagers[i].game_id) = {i}
        /\ users[wagers[i].user_id] = Shazbucks(INIT_BAL) - Shazbucks(wagers[i].amount)
        /\ users[DISCORD_ID] = -Shazbucks(INIT_BAL) * (Cardinality(DOMAIN users) - 1)
                               + Shazbucks(wagers[i].amount)

\* The roster claims are stated on the event handlers: in every reachable
\* state, for every pair of players the matchmaking bot may name.
RosterChanged(res, g) ==
    <<res.db.games[g].team1, res.db.games[g].team2>> # <<games[g].team1, games[g].team2>>

\* Every InProgress wager on the match is refunded and Cancelled, the match stays InProgress.
WagersInvalidated(res, g) ==
    /\ res.db.games[g].status = GameStatus_INPROGRESS
    /\ \A i \in 1..Len(wagers) :
           (wagers[i].game_id = g /\ wagers[i].result = WagerResult_INPROGRESS)
           => Refunded(res, i, WagerResult_CANCELLED)

Repicks == {<<<<1>>, <<2>>>>, <<<<2>>, <<1>>>>, <<<<1, 3>>, <<2>>>>}

\* C16: roster change invalidates wagers. A substitution or a swap in an
\* InProgress match, and a re-pick of an InProgress match, refund every
\* InProgress wager on it by a House-to-bettor transfer of its amount and mark
\* it Cancelled, the match staying InProgress; a substitution in a Picking
\* match touches no wager.
C16_RosterChangeRefunds ==
    \A g \in 1..Len(games) :
        /\ \A p \in Members, q \in Members :
            LET sub == sub_player(DB, p, q)
                swap == swap_player(DB, p, q)
            IN  /\ (IsOpen(g) /\ RosterChanged(sub, g)) => WagersInvalidated(sub, g)
                /\ (IsOpen(g) /\ RosterChanged(swap, g)) => WagersInvalidated(swap, g)
                /\ (games[g].status = GameStatus_PICKING /\ RosterChanged(sub, g))
                   => /\ sub.db.wagers = wagers
                      /\ sub.db.users = users
                      /\ sub.db.inserted = EmptyBag
        /\ \A teams \in Repicks, queue \in PugQueues :
            (/\ IsOpen(g)
             /\ PickMatch(DB, PickCandidates(DB, queue), Head(teams[1]), Head(teams[2])) = g)
            => WagersInvalidated(game_picked(DB, queue, teams[1], teams[2]), g)

\* An InProgress match with a substitute in its roster and a wager on it
\* cancelled, the stake back with the bettor.
C16_Witness ==
    \E g \in OpenGames, i \in 1..Len(wagers) :
        /\ InTeam(NumMembers, games[g].team1) \/ InTeam(NumMembers, games[g].team2)
        /\ wagers[i].game_id = g
        /\ wagers[i].result = WagerResult_CANCELLED
        /\ users[wagers[i].user_id] = Shazbucks(INIT_BAL)

\* C17: match status moves forward only. Between operations the status of a
\* match changes only Picking -> InProgress, Picking -> Cancelled,
\* InProgress -> Team1, Team2, Tied or Cancelled, or, by !change_game alone,
\* from Team1, Team2 or Tied to a different result; no match returns to
\* Picking and a Cancelled match never changes status.
C17_StatusForwardOnly ==
    [][/\ Len(games') >= Len(games)
       /\ \A g \in 1..Len(games) :
            LET old == games[g].status
                new == games'[g].status
            IN  \/ new = old
                \/ old = GameStatus_PICKING
                   /\ new \in {GameStatus_INPROGRESS, GameStatus_CANCELLED}
                \/ old = GameStatus_INPROGRESS
                   /\ new \in Outcomes \cup {GameStatus_CANCELLED}
                \/ /\ old \in Outcomes
                   /\ new \in Outcomes \cup {GameStatus_CANCELLED}
                   /\ \E m \in Members, result \in AllResults :
                          games' = cmd_change_game(DB, m, g, result).db.games]_vars

\* A matchmaking match that went from Picking through InProgress to a result.
C17_Witness ==
    \E g \in 1..Len(games) :
        /\ games[g].queue \in PugQueues
        /\ games[g].pick_time # -1
        /\ games[g].status \in Outcomes

\* C18: pick_time is set exactly once per match, at its Picking -> InProgress
\* transition: once a match has a pick_time no later event changes it, a
\* second TeamsPicked event for the match included.
C18_PickTimeSetOnce ==
    \A g \in 1..Len(games) :
        games[g].pick_time # -1
        => /\ \A queue \in PugQueues, teams \in PugTeams :
                  game_picked(DB, queue, teams[1], teams[2]).db.games[g].pick_time
                      = games[g].pick_time
           /\ \A p \in Members, q \in Members :
                  /\ sub_player(DB, p, q).db.games[g].pick_time = games[g].pick_time
                  /\ swap_player(DB, p, q).db.games[g].pick_time = games[g].pick_time

\* C19: bet/settlement race. Under every interleaving of a bet command with
\* the settlement of the same match, no wager is created or amended on the
\* match after its status has left InProgress: no wager is InProgress, its
\* stake held by House, on a match that is not InProgress.
C19_NoBetAfterSettlement ==
    \A i \in 1..Len(wagers) :
        wagers[i].result = WagerResult_INPROGRESS
        => games[wagers[i].game_id].status = GameStatus_INPROGRESS

\* C20: transfer atomicity. A transfer is all-or-nothing: when a storage
\* failure occurs at any statement of create_transfer none of the row insert,
\* the sender's debit and the receiver's credit is applied and the caller gets
\* the return value 0; no state is reachable in which a transfer row exists,
\* or the sender is debited, without the receiver being credited.
C20_TransferAtomicity ==
    /\ Consistent(DB)
    /\ TotalBalance(DB) = 0
    /\ \A pair \in FaultPairs, amount \in 1..MaxGift, step \in 1..3 :
           LET r == create_transfer_fault(DB, pair[1], pair[2], Shazbucks(amount), step)
           IN  r.db = DB /\ r.returned = "zero"

\* C23: gift contract. A gift of amount a succeeds only when sender and
\* receiver both have accounts and a is not negative and does not exceed the
\* sender's balance; on success exactly one transfer of a from sender to
\* receiver is recorded; on every failure no transfer is recorded, no balance
\* changes and the command reports failure.
C23_GiftContract ==
    \A sender \in Members, receiver \in Members, amount \in PlaceAmounts :
        LET res == cmd_gift(DB, sender, receiver, amount)
            given == [u \in DOMAIN users |->
                         (IF u = receiver THEN Shazbucks(amount) ELSE 0)
                         - (IF u = sender THEN Shazbucks(amount) ELSE 0)]
        IN  IF res.success
            THEN /\ sender \in DOMAIN users
                 /\ receiver \in DOMAIN users
                 /\ amount >= 0
                 /\ Shazbucks(amount) <= users[sender]
                 /\ res.db.inserted = SetToBag({<<sender, receiver, Shazbucks(amount)>>})
                 /\ res.db.users = [u \in DOMAIN users |-> users[u] + given[u]]
            ELSE res.db = DB

\* The first member has given one shazbuck of the initial balance to the second.
C23_Witness ==
    /\ 1 \in DOMAIN users /\ 2 \in DOMAIN users
    /\ users[1] = Shazbucks(INIT_BAL - 1)
    /\ users[2] = Shazbucks(INIT_BAL + 1)
    /\ wagers = <<>>
    /\ games = <<>>

\* C26: every wager ever stored has a prediction in {Team1, Team2, Tied},
\* whatever the prediction token and the set of InProgress matches, also when
\* the captain name given is a captain of more than one InProgress match.
C26_PredictionIsOutcome ==
    \A i \in 1..Len(wagers) : wagers[i].prediction \in Outcomes

\* C27: the bet window enforced on a bet is that of the match the wager is
\* recorded on. With several matches InProgress, an otherwise valid bet on a
\* captain name is accepted if and only if the time elapsed since the pick of
\* the match that captain plays in does not exceed the bet window of that same
\* match.
C27_WindowOfMatchedGame ==
    \A m \in Members, winner \in PlaceWinners, amount \in PlaceAmounts,
       g \in 1..Len(games) :
        (/\ winner[1] = "nick"
         /\ Cardinality(OpenGames) > 1
         /\ BetOn(winner, 0) = {g}
         /\ ValidStake(m, amount)
         /\ \A i \in Held(m, g) : wagers[i].prediction = Predicts(games[g], winner))
        => (cmd_bet(DB, m, winner, amount, 0).success
            <=> Elapsed(g) <= games[g].bet_window)

\* The transfer rows each command or event would record in the current state.
RecordedByHandlers ==
    {cmd_shazbucks(DB, m).db.inserted : m \in Members}
    \cup {cmd_gift(DB, pair[1], pair[2], amount).db.inserted :
              pair \in GiftPairs, amount \in GiftAmounts}
    \cup {cmd_bet(DB, m, winner, amount, game_id).db.inserted :
              m \in Members, winner \in BetWinners, amount \in BetAmounts,
              game_id \in 0..Len(games)}
    \cup {cmd_end_game(DB, m, game_id, result).db.inserted :
              m \in Admins, game_id \in 1..Len(games), result \in Results}
    \cup {cmd_change_game(DB, m, game_id, result).db.inserted :
              m \in Admins, game_id \in 1..Len(games), result \in Results}
    \cup {game_finished(DB, queue, winner).db.inserted :
              queue \in PugQueues, winner \in {0, 1, 2}}
    \cup {sub_player(DB, sub[1], sub[2]).db.inserted : sub \in Subs}
    \cup {swap_player(DB, swap[1], swap[2]).db.inserted : swap \in Swaps}

\* C28: every recorded transfer has a strictly positive amount, for every
\* command and event that records one (gift, bet, amendment, refund, payout,
\* clawback, participation reward).
C28_PositiveAmounts ==
    \A inserted \in RecordedByHandlers :
        \A row \in BagToSet(inserted) : row[3] > 0

\* Units are half shazbucks: a whole number of shazbucks is an even number of units.
WholeShazbucks(units) == units % MONEY_SCALE = 0

\* C29: every user's balance and every transfer amount is an integer number of
\* shazbucks in every reachable state, also after a match is settled to Tied
\* with winning Tied wagers and after such a settlement is clawed back.
C29_IntegerShazbucks ==
    /\ \A u \in DOMAIN users : WholeShazbucks(users[u])
    /\ \A m \in Admins, game_id \in 1..Len(games), result \in Results :
           \A row \in BagToSet(cmd_end_game(DB, m, game_id, result).db.inserted)
                      \cup BagToSet(cmd_change_game(DB, m, game_id, result).db.inserted) :
               WholeShazbucks(row[3])

\* C30: tie payout scale. When a match is settled to Tied with stakes on Tied
\* and on another outcome, each winning Tied wager is paid TIE_PAYOUT_SCALE
\* times round(amount * total staked / total staked on Tied), and a later
\* change-result claws back exactly that same amount from the bettor.
C30_TiePayoutScale ==
    \A game_id \in 1..Len(games), m \in Admins,
       B \in {GameStatus_TEAM1, GameStatus_TEAM2} :
        LET ids == InProgressWagers(DB, game_id)
            on_tied == TotalAmount(DB, ids, GameStatus_TIED)
        IN  (/\ IsOpen(game_id)
             /\ on_tied > 0
             /\ \E k \in 1..Len(ids) :
                    wagers[ids[k]].prediction \in Outcomes \ {GameStatus_TIED})
            => \A res \in Settlements(m, game_id, GameStatus_TIED), k \in 1..Len(ids) :
                   LET w == wagers[ids[k]]
                       paid == TIE_PAYOUT_SCALE(Shazbucks(PyRound(w.amount * Staked(DB, ids),
                                                                  on_tied)))
                       settled == [res.db EXCEPT !.inserted = EmptyBag]
                       changed == cmd_change_game(settled, m, game_id, ResultWord(B)).db
                   IN  w.prediction = GameStatus_TIED
                       => /\ PaidOnce(res.db, w.user_id, paid)
                          /\ res.db.users[w.user_id] = users[w.user_id] + paid
                          /\ \A row \in BagToSet(changed.inserted) :
                                 row[1] = w.user_id
                                 => /\ row = <<w.user_id, DISCORD_ID, paid>>
                                    /\ CopiesIn(row, changed.inserted) = 1
                          /\ <<w.user_id, DISCORD_ID, paid>> \in BagToSet(changed.inserted)

\* The rating of the row appended last for the player, the default prior
\* when the player has no row.
LastRating(rows, discord_id) ==
    LET mine == {i \in 1..Len(rows) : rows[i].discord_id = discord_id}
    IN  IF mine = {} THEN Rating
        ELSE rows[CHOOSE i \in mine : \A j \in mine : j <= i].rating

\* The matches an event settles: InProgress before, Team1, Team2 or Tied after.
SettledBy(res) ==
    {g \in 1..Len(games) : /\ games[g].status = GameStatus_INPROGRESS
                           /\ res.db.games[g].status \in Outcomes}

\* C24: skill rating append. After a MatchFinished event settles a match to
\* Team1, Team2 or Tied, exactly one new rating row tagged with the match id is
\* appended for each roster participant, computed from the participants'
\* latest ratings (or the default prior) with rank order [0,1] for Team1, [1,0]
\* for Team2 and [0,0] for Tied; existing rows are neither modified nor
\* deleted, and no row is appended when the event settles no match.
C24_SkillRatingAppend ==
    \A queue \in PugQueues, winner \in {0} \cup Members :
        LET res == game_finished(DB, queue, winner)
            after == res.db.trueskills
            new == SubSeq(after, Len(trueskills) + 1, Len(after))
        IN  /\ Len(after) >= Len(trueskills)
            /\ SubSeq(after, 1, Len(trueskills)) = trueskills
            /\ SettledBy(res) = {} => new = <<>>
            /\ \A g \in SettledBy(res) :
                   LET teams == <<games[g].team1, games[g].team2>>
                       status == res.db.games[g].status
                       order == CASE status = GameStatus_TEAM1 -> <<0, 1>>
                                  [] status = GameStatus_TEAM2 -> <<1, 0>>
                                  [] OTHER -> <<0, 0>>
                       priors == [t \in 1..2 |->
                                     [p \in 1..Len(teams[t]) |->
                                         LastRating(trueskills, teams[t][p])]]
                   IN  /\ Len(new) = Len(teams[1]) + Len(teams[2])
                       /\ \A t \in 1..2 : \A p \in 1..Len(teams[t]) :
                              Cardinality({i \in 1..Len(new) :
                                  new[i] = [discord_id |-> teams[t][p], game_id |-> g,
                                            rating |-> rate(priors, order, t, p)]}) = 1

\* The number of transfer rows from House to the user the handler inserted.
HouseTo(d, user_id) ==
    LET rows == {r \in BagToSet(d.inserted) : r[1] = DISCORD_ID /\ r[2] = user_id}
    IN  SumOver([r \in rows |-> CopiesIn(r, d.inserted)], rows)

\* After the settlement no wager of the match is InProgress, and every wager
\* that was InProgress got at most one transfer from House, next to the
\* participation rewards the event pays.
FinalizedOnce(game_id, after, rewards) ==
    \A i \in 1..Len(wagers) :
        wagers[i].game_id = game_id
        => /\ after.wagers[i].result # WagerResult_INPROGRESS
           /\ wagers[i].result = WagerResult_INPROGRESS
              => HouseTo(after, wagers[i].user_id) <= 1 + rewards[wagers[i].user_id]

\* C25: every wager is finalized exactly once per settlement. When a
\* settlement (MatchFinished, end-game, or the re-settle step of
\* change-result) completes, no wager on that match is InProgress and each
\* wager that was InProgress had its result written and received at most one
\* House-to-bettor transfer; a repeated MatchFinished event for the same match
\* changes nothing.
C25_FinalizedOnce ==
    /\ \A m \in Admins, game_id \in 1..Len(games), result \in AllResults :
           \A res \in {cmd_end_game(DB, m, game_id, result),
                       cmd_change_game(DB, m, game_id, result)} :
               res.success => FinalizedOnce(game_id, res.db, [u \in DOMAIN users |-> 0])
    /\ \A queue \in PugQueues, winner \in {0} \cup Members :
           LET res == game_finished(DB, queue, winner)
               settled == [res.db EXCEPT !.inserted = EmptyBag]
           IN  res.success
               => /\ \A g \in SettledBy(res) :
                         FinalizedOnce(g, res.db,
                                       [u \in DOMAIN users |->
                                           IF InTeam(u, games[g].team1) \/ InTeam(u, games[g].team2)
                                           THEN 1 ELSE 0])
                  /\ game_finished(settled, queue, winner).db = settled

\* Every message delivered reports a wager result and a transfer that were
\* already written when the message was sent.
ReportedAfterCommit(res) ==
    \A i \in 1..Len(res.out) :
        LET report == res.out[i].report
            seen == res.out[i].seen
        IN  /\ report.wager_id # 0
               => /\ report.wager_id \in 1..Len(seen.wagers)
                  /\ seen.wagers[report.wager_id].result = report.result
            /\ report.row # <<>> => BagIn(report.row, seen.inserted)

NotifyInputs == Admins \X (1..Len(games)) \X Results \X DmRuns

\* C21: notification ordering. Every direct message that reports a ledger
\* change (bet accepted, bet refunded, payout, clawback, gift, participation
\* reward) is sent only after the transfer and the wager-result update it
\* reports have been committed.
C21_NotifyAfterCommit ==
    /\ \A in \in NotifyInputs :
           /\ ReportedAfterCommit(cmd_end_game_dm(DB, in[1], in[2], in[3], in[4]))
           /\ ReportedAfterCommit(cmd_change_game_dm(DB, in[1], in[2], in[3], in[4]))
    /\ \A dms \in DmRuns :
           /\ \A sub \in Subs : ReportedAfterCommit(sub_player_dm(DB, sub[1], sub[2], dms))
           /\ \A queue \in PugQueues, winner \in {0, 1, 2} :
                  ReportedAfterCommit(game_finished_dm(DB, queue, winner, dms))
           /\ \A pair \in GiftPairs, amount \in GiftAmounts :
                  ReportedAfterCommit(cmd_gift_dm(DB, pair[1], pair[2], amount, dms))
           /\ \A m \in Members, winner \in BetWinners, game_id \in 0..Len(games) :
                  ReportedAfterCommit(cmd_bet_dm(DB, m, winner, MaxAmount, game_id, dms))

\* The custom game was settled with a winner paid and a loser, and the wagers
\* on the matchmaking game were refunded after a substitution.
C21_Witness ==
    /\ HasResult(WagerResult_WON)
    /\ HasResult(WagerResult_LOST)
    /\ HasResult(WagerResult_CANCELLED)
    /\ \E g \in 1..Len(games) : games[g].status \in Outcomes

\* No wager of the match is left InProgress.
AllResolved(d, game_id) ==
    \A i \in 1..Len(d.wagers) :
        d.wagers[i].game_id = game_id => d.wagers[i].result # WagerResult_INPROGRESS

\* A message of the run is not delivered while the loop handles the wagers.
FailsWithin(dms, ids) == \E k \in 1..Len(ids) : dms[k] # "sent"

\* C22: notification failure isolation. If sending a notification fails
\* during a settlement or a roster-change refund, no committed ledger change
\* is undone and the remaining ledger changes still happen: every InProgress
\* wager of the match is resolved, none is left InProgress on a terminal match.
C22_NotifyFailureIsolated ==
    /\ \A in \in NotifyInputs :
           LET res == cmd_end_game_dm(DB, in[1], in[2], in[3], in[4])
               ids == InProgressWagers(DB, in[2])
           IN  (/\ FailsWithin(in[4], ids)
                /\ ~PredictionRaises(DB, ids)
                /\ res.db.games[in[2]].status # games[in[2]].status)
               => /\ AllResolved(res.db, in[2])
                  /\ Tables(res.db)
                     = Tables(cmd_end_game_dm(DB, in[1], in[2], in[3], AllSent).db)
    /\ \A sub \in Subs, dms \in DmRuns :
           LET res == sub_player_dm(DB, sub[1], sub[2], dms)
           IN  \A g \in 1..Len(games) :
                   (/\ FailsWithin(dms, InProgressWagers(DB, g))
                    /\ IsOpen(g)
                    /\ res.db.games[g] # games[g])
                   => /\ AllResolved(res.db, g)
                      /\ Tables(res.db)
                         = Tables(sub_player_dm(DB, sub[1], sub[2], AllSent).db)

\* The most recently started of the matches ids: rows are inserted in start
\* order, so among equal start times the later row started later.
LatestStarted(ids) ==
    CHOOSE i \in {ids[k] : k \in 1..Len(ids)} :
        \A k \in 1..Len(ids) :
            \/ games[ids[k]].start_time < games[i].start_time
            \/ games[ids[k]].start_time = games[i].start_time /\ ids[k] <= i

\* The outcome the roster-event correlation asks of an event whose open
\* candidate matches are ids.
AppliedToLatest(res, ids) ==
    /\ ~res.raised
    /\ IF ids = <<>>
       THEN ~res.success /\ Tables(res.db) = Tables(DB)
       ELSE /\ res.success
            /\ res.db.games[LatestStarted(ids)] # games[LatestStarted(ids)]
            /\ \A g \in 1..Len(games) :
                   g # LatestStarted(ids) => res.db.games[g] = games[g]
            /\ \A w \in 1..Len(wagers) :
                   wagers[w].game_id # LatestStarted(ids) => res.db.wagers[w] = wagers[w]

RosterNicks == Names \X Names

\* The open matches a roster event correlates with; a nick of no member is on
\* no roster.
OpenWith(player) ==
    RosterCandidates(DB, player, {GameStatus_PICKING, GameStatus_INPROGRESS})

\* C31: roster-event correlation. A substitute, swap or replace-captain event
\* that matches several open matches is applied to exactly one of them, the
\* most recently started, and leaves the others unchanged; an event that
\* matches no open match changes no match, no wager and no balance and reports
\* failure; in neither case does the handler crash.
C31_RosterCorrelation ==
    \A pair \in RosterNicks :
        pair[1] # pair[2]
        => /\ AppliedToLatest(sub_player_message(DB, pair[1], pair[2]), OpenWith(pair[1]))
           /\ AppliedToLatest(swap_player_message(DB, pair[1], pair[2]),
                              SwapCandidates(DB, pair[1], pair[2]))
           /\ AppliedToLatest(replaced_captain(DB, pair[2], pair[1]),
                              CaptainCandidates(DB, pair[1]))

Terminal == {GameStatus_CANCELLED, GameStatus_TEAM1, GameStatus_TEAM2, GameStatus_TIED}

\* The matches of ids that the event has changed.
Touched(res, ids) == {g \in {ids[k] : k \in 1..Len(ids)} : res.db.games[g] # games[g]}

\* Everything outside match g is as before: the other matches and their wagers.
OthersUntouched(res, g) ==
    /\ \A h \in 1..Len(games) : h # g => res.db.games[h] = games[h]
    /\ \A w \in 1..Len(wagers) : wagers[w].game_id # g => res.db.wagers[w] = wagers[w]

NoMutation(res) == Tables(res.db) = Tables(DB) /\ res.db.trueskills = trueskills

PickingGames == SelectIds(games, LAMBDA g : g.status = GameStatus_PICKING, 1)

\* C32: match-event correlation. A MatchFinished event that matches several
\* InProgress matches of its queue settles exactly one of them and leaves the
\* others InProgress with their wagers untouched; a MatchCancelled event
\* arriving while several matches are Picking cancels one of them; an event
\* that matches no match mutates no state.
C32_MatchCorrelation ==
    /\ \A queue \in PugQueues, winner \in {0} \cup Members :
           LET ids == FinishCandidates(DB, queue, winner)
               res == game_finished(DB, queue, winner)
           IN  /\ ids = <<>> => NoMutation(res)
               /\ Len(ids) > 1
                  => \E g \in Touched(res, ids) :
                         /\ Touched(res, ids) = {g}
                         /\ res.db.games[g].status \in Terminal
                         /\ OthersUntouched(res, g)
    /\ LET res == game_cancelled(DB)
       IN  /\ PickingGames = <<>> => NoMutation(res)
           /\ Len(PickingGames) > 1
              => \E g \in Touched(res, PickingGames) :
                     /\ Touched(res, PickingGames) = {g}
                     /\ res.db.games[g].status = GameStatus_CANCELLED
                     /\ OthersUntouched(res, g)

\* The transfers a MatchFinished event inserts besides those of the wagers it
\* resolves: the participation rewards.
RewardRows(res, g) ==
    res.db.inserted
    (-) resolve_wagers(finish_game(DB, g, res.db.games[g].status), g,
                       res.db.games[g].status).db.inserted

NoDuplicates(team1, team2) ==
    LET roster == team1 \o team2
    IN  \A i, j \in 1..Len(roster) : roster[i] = roster[j] => i = j

\* The reward due to member m of a match with these rosters, in money units.
RewardDue(m, team1, team2) ==
    IF m \in {capt_nick(team1), capt_nick(team2)} THEN Shazbucks(2 * BUCKS_PER_PUG)
    ELSE Shazbucks(BUCKS_PER_PUG)

\* C33: participation rewards. When a MatchFinished event settles a match,
\* each roster member who has an account receives exactly one House-to-player
\* reward transfer: 2 * BUCKS_PER_PUG if the member is the captain (first
\* roster entry) of their team and BUCKS_PER_PUG otherwise; members without an
\* account receive nothing, nobody who is not a captain receives the double
\* reward, and a later change-result pays no further reward.
C33_ParticipationRewards ==
    /\ \A queue \in PugQueues, winner \in {0} \cup Members :
           LET res == game_finished(DB, queue, winner)
           IN  \A g \in SettledBy(res) :
                   (res.success /\ NoDuplicates(games[g].team1, games[g].team2))
                   => \A m \in Members :
                          LET mine == {r \in BagToSet(RewardRows(res, g)) : r[2] = m}
                          IN  IF m \in DOMAIN users
                                 /\ (InTeam(m, games[g].team1) \/ InTeam(m, games[g].team2))
                              THEN /\ mine = {<<DISCORD_ID, m,
                                                RewardDue(m, games[g].team1, games[g].team2)>>}
                                   /\ \A r \in mine : CopiesIn(r, RewardRows(res, g)) = 1
                              ELSE mine = {}
    /\ \A m \in Admins, g \in 1..Len(games), result \in Results :
           LET res == cmd_change_game(DB, m, g, result)
           IN  \A r \in BagToSet(res.db.inserted) :
                   \E w \in 1..Len(wagers) :
                       wagers[w].game_id = g /\ wagers[w].user_id \in {r[1], r[2]}

\* The stakes member m has in escrow: the amounts of m's InProgress wagers.
Escrowed(m) ==
    LET mine == {w \in 1..Len(wagers) : /\ wagers[w].user_id = m
                                        /\ wagers[w].result = WagerResult_INPROGRESS}
    IN  SumOver([w \in mine |-> Shazbucks(wagers[w].amount)], mine)

\* C34: amendment/refund race. Under every interleaving of a same-prediction
\* bet amendment with a roster-change refund on the same match, the refund a
\* bettor receives for a wager marked Cancelled equals the total amount the
\* bettor has escrowed on that wager: once a wager is Cancelled its stake is
\* back, so a bettor's balance is the initial balance less the stakes of the
\* wagers still InProgress.
C34_RefundEqualsEscrow ==
    \A m \in Members : users[m] = Shazbucks(INIT_BAL) - Escrowed(m)

\* C35: no double spend. Under every interleaving of two ledger commands of
\* the same user (two bets, or a bet and a gift), the balance check and the
\* debit of each command act on the same balance: what the commands debit
\* never exceeds the balance the user had, so no user other than House has a
\* negative balance.
C35_NoDoubleSpend ==
    \A m \in DOMAIN users \ {DISCORD_ID} : users[m] >= 0

\* An admin's command on the match: a settlement, a result correction or none.
OverlapCommands == {"end_game", "change_game", "none"} \X OverlapResults

Run(d, command) ==
    IF command[1] = "end_game" THEN cmd_end_game(d, 1, 1, command[2]).db
    ELSE IF command[1] = "change_game" THEN cmd_change_game(d, 1, 1, command[2]).db
    ELSE d

\* The balances, matches and wagers after at most two commands run one after
\* the other on a pool.
OneAfterTheOther(pool) ==
    {<<Run(Run(pool, first), second).users, Run(Run(pool, first), second).games,
       Run(Run(pool, first), second).wagers>> :
         first \in OverlapCommands, second \in OverlapCommands}

\* C36: overlapping settlements are serializable. Under every interleaving of
\* a settlement and a change-result command on the same match, once both have
\* completed the balances and wager results equal those of running the
\* operations one after the other in some order on the pool they started from.
C36_Serializable ==
    SettleFrames = {}
    => \E bets \in [Members -> OverlapBets] :
           <<users, games, wagers>> \in OneAfterTheOther(OverlapPool(bets))

\* C37: with events handled one at a time, the balance of every user other
\* than House is never negative after any sequence of registrations, gifts,
\* bets, settlements, roster-change refunds and result corrections.
C37_BalanceNonNegative ==
    \A m \in Members : m \in DOMAIN users => users[m] >= 0

\* C38: with events handled one at a time, in every state between two
\* operations each wager with result InProgress belongs to a match whose
\* status is InProgress: no match in Picking or in a terminal status holds an
\* unresolved wager.
C38_OpenWagerOnOpenMatch ==
    \A w \in 1..Len(wagers) :
        wagers[w].result = WagerResult_INPROGRESS
        => games[wagers[w].game_id].status = GameStatus_INPROGRESS

\* What House paid out in the rows a handler inserted, in money units.
HousePaid(d) ==
    LET rows == {r \in BagToSet(d.inserted) : r[1] = DISCORD_ID}
    IN  SumOver([r \in rows |-> r[3] * CopiesIn(r, d.inserted)], rows)

\* C39: House never pays out more than the pool. For every
\* settlement of a match to Team1, Team2 or Tied, the sum of the amounts
\* transferred from House to bettors for that match does not exceed the sum
\* of the amounts of the wagers settled.
C39_PayoutWithinPool ==
    \A game_id \in 1..Len(games), status \in Outcomes, m \in Admins :
        IsOpen(game_id)
        => \A res \in Settlements(m, game_id, status) :
               HousePaid(res.db) <= Shazbucks(Staked(DB, InProgressWagers(DB, game_id)))

\* The wagers of ids a settlement has marked Won.
WonBy(res, ids) ==
    {k \in 1..Len(ids) : res.db.wagers[ids[k]].result = WagerResult_WON}

\* What a settlement transferred from House to user_id, in money units.
PaidTo(d, user_id) ==
    LET rows == {r \in BagToSet(d.inserted) : r[1] = DISCORD_ID /\ r[2] = user_id}
    IN  SumOver([r \in rows |-> r[3] * CopiesIn(r, d.inserted)], rows)

\* C40: a wager marked Won is never paid less than its stake. For every
\* settlement and every winning wager, the payout transferred to the bettor
\* is greater than or equal to the wager's amount, for Team1, Team2 and Tied
\* results alike.
C40_WonPaidAtLeastStake ==
    \A game_id \in 1..Len(games), status \in Outcomes, m \in Admins :
        IsOpen(game_id)
        => \A res \in Settlements(m, game_id, status) :
               LET ids == InProgressWagers(DB, game_id)
               IN  \A k \in WonBy(res, ids) :
                       PaidTo(res.db, wagers[ids[k]].user_id)
                       >= Shazbucks(wagers[ids[k]].amount)

\* C10: in every reachable state, for every (user, match) pair there is at
\* most one wager with result InProgress, after any sequence and any
\* interleaving of bet commands.
C10_OneOpenWager ==
    \A i, j \in 1..Len(wagers) :
        (/\ wagers[i].user_id = wagers[j].user_id
         /\ wagers[i].game_id = wagers[j].game_id
         /\ wagers[i].result = WagerResult_INPROGRESS
         /\ wagers[j].result = WagerResult_INPROGRESS) => i = j

\* Two bets of one member on one match overlapped: both passed the balance
\* check, the first has written its wager, the second is still suspended.
C10_Witness ==
    \E frame \in BagToSet(awaiting), i \in 1..Len(wagers) :
        /\ wagers[i].user_id = frame.discord_id
        /\ wagers[i].game_id = frame.target.game_id
        /\ wagers[i].result = WagerResult_INPROGRESS
        /\ users[frame.discord_id] < Shazbucks(frame.amount)

=============================================================================
